---- MODULE Spec2Model ----
(***************************************************************************)
(* DataHub backend: the authentication and token-lifecycle subsystem.      *)
(*                                                                         *)
(* Five specifications share this module:                                  *)
(*   RegSpec  the OAuth2 state registry (StateRepo) at the granularity of  *)
(*            its sync.RWMutex: every registry function is a sequence of   *)
(*            lock, body and unlock steps run by concurrent goroutines;    *)
(*   JwtSpec  the session credential: GenerateJWT and the RequireJWT       *)
(*            middleware applied to arbitrary presented headers, with a    *)
(*            clock that ticks in days;                                    *)
(*   Spec     the request handlers (OAuth URL, Google sign-in, GitHub      *)
(*            account linking) running concurrently over the registry and  *)
(*            the Postgres tables users and tokens;                        *)
(*   SeqSpec  the same handlers serving one request at a time;             *)
(*   LinkSpec SeqSpec on a database that already holds a signed-in user.   *)
(***************************************************************************)
EXTENDS Integers, Sequences, FiniteSets, TLC

\* ------------------------------------------------------------------ bounds

\* State tokens that util.GenerateRandomState may hand out in one run.
MaxStates == 3

\* State tokens issued while requests are served concurrently (Spec).
MaxParStates == 2

\* Goroutines calling the registry concurrently (RegSpec).
NumThreads == 2

\* Registry calls a run of RegSpec makes in total.
MaxCalls == 4

StateValues == 1..MaxStates
Threads == 1..NumThreads

\* ----------------------------------------------------------- state registry

VARIABLES
    tokens,     \* stateRepo.tokens: the pending state tokens (map keys)
    nextState,  \* number of values crypto/rand has produced so far
    writer,     \* stateRepo.mu: the goroutine holding the write lock, or 0
    readers,    \* stateRepo.mu: the goroutines holding the read lock
    thr,        \* per goroutine: the registry call it is executing
    calls,      \* registry calls started so far
    trueCount,  \* history: per value, verifyAndConsumeState calls that returned true
    lateFalse   \* history: per value, calls that returned false after one returned true

VARIABLES
    now,        \* the wall clock (time.Now), in days
    sessions,   \* history: the credentials GenerateJWT has returned, with user and day
    lastCheck   \* history: the last header RequireJWT examined, and its verdict

VARIABLES
    users,      \* the users table: rows [id, email]
    creds,      \* the tokens table: one row per stored OAuth grant
    flow,       \* per request slot: the handler running in it and its locals
    last        \* the request the step just taken completed, and its responses

regVars == <<tokens, nextState, writer, readers, thr, calls, trueCount, lateFalse>>
jwtVars == <<now, sessions, lastCheck>>
mainVars == <<users, creds, flow, last>>
vars == <<regVars, jwtVars, mainVars>>

\* A goroutine that is not inside a registry function.
IdleThread == [op |-> "none", pc |-> "idle", arg |-> 0, exists |-> FALSE, ret |-> "none"]

\* Fault: the entry is left in the map.
DeleteToken_Skip(toks, state) == toks

\* Fault: the delete empties the map.
DeleteToken_Clear(toks, state) == {}

\* Fault: the delete takes the token drawn before state along.
DeleteToken_Neighbour(toks, state) == toks \ {state, state - 1}

\* delete(stateRepo.tokens, state)
DeleteToken(toks, state) == toks \ {state}

\* stateRepo.tokens[state] = struct{}{}
StoreToken(toks, state) == toks \cup {state}

\* Fault: the lookup reports every key as present.
TokenExists_Any(toks, state) == TRUE

\* _, exists := stateRepo.tokens[state]
TokenExists(toks, state) == state \in toks

\* Fault: a mutex that lets every caller in.
CanLock_Free(w, rs) == TRUE

\* sync.RWMutex.Lock succeeds only with no writer and no reader inside.
CanLock(w, rs) == w = 0 /\ rs = {}

\* Fault: a read lock that does not wait for the writer.
CanRLock_Free(w) == TRUE

\* sync.RWMutex.RLock succeeds only with no writer inside.
CanRLock(w) == w = 0

\* The lock a registry function takes on entry.
LockKind(op) == IF op = "isValidState" THEN "read" ELSE "write"

\* A goroutine enters one of the lock-taking registry functions.
RegCall(t, op, state) ==
    /\ thr[t].pc = "idle"
    /\ calls < MaxCalls
    /\ op \in {"isValidState", "verifyAndConsumeState", "removeState"}
    /\ thr' = [thr EXCEPT ![t] = [op |-> op, pc |-> "lock", arg |-> state,
                                  exists |-> FALSE, ret |-> "none"]]
    /\ calls' = calls + 1
    /\ UNCHANGED <<tokens, nextState, writer, readers, trueCount, lateFalse>>
    /\ UNCHANGED <<jwtVars, mainVars>>

\* generateAndAddState, first half: util.GenerateRandomState draws 32 random
\* bytes. Two draws never collide (256 bits), so a draw is a fresh value.
RegGenerate(t) ==
    /\ thr[t].pc = "idle"
    /\ calls < MaxCalls
    /\ nextState < MaxStates
    /\ nextState' = nextState + 1
    /\ thr' = [thr EXCEPT ![t] = [op |-> "addState", pc |-> "lock", arg |-> nextState + 1,
                                  exists |-> FALSE, ret |-> "none"]]
    /\ calls' = calls + 1
    /\ UNCHANGED <<tokens, writer, readers, trueCount, lateFalse>>
    /\ UNCHANGED <<jwtVars, mainVars>>

\* generateAndAddState when rand.Read fails: the error is returned, addState
\* is never reached.
RegGenerateFails(t) ==
    /\ thr[t].pc = "idle"
    /\ calls < MaxCalls
    /\ thr' = [thr EXCEPT ![t] = [op |-> "generateAndAddState", pc |-> "returned", arg |-> 0,
                                  exists |-> FALSE, ret |-> "error"]]
    /\ calls' = calls + 1
    /\ UNCHANGED <<tokens, nextState, writer, readers, trueCount, lateFalse>>
    /\ UNCHANGED <<jwtVars, mainVars>>

\* stateRepo.mu.Lock() / stateRepo.mu.RLock()
RegLock(t) ==
    /\ thr[t].pc = "lock"
    /\ IF LockKind(thr[t].op) = "read"
          THEN /\ CanRLock(writer)
               /\ readers' = readers \cup {t}
               /\ UNCHANGED writer
          ELSE /\ CanLock(writer, readers)
               /\ writer' = t
               /\ UNCHANGED readers
    /\ thr' = [thr EXCEPT ![t].pc = "body"]
    /\ UNCHANGED <<tokens, nextState, calls, trueCount, lateFalse>>
    /\ UNCHANGED <<jwtVars, mainVars>>

\* The first statement inside the lock.
RegBody(t) ==
    /\ thr[t].pc = "body"
    /\ \/ /\ thr[t].op \in {"isValidState", "verifyAndConsumeState"}
          /\ thr' = [thr EXCEPT ![t].exists = TokenExists(tokens, thr[t].arg),
                                ![t].pc = IF thr[t].op = "verifyAndConsumeState"
                                             /\ TokenExists(tokens, thr[t].arg)
                                          THEN "delete" ELSE "unlock"]
          /\ UNCHANGED tokens
       \/ /\ thr[t].op = "addState"
          /\ tokens' = StoreToken(tokens, thr[t].arg)
          /\ thr' = [thr EXCEPT ![t].pc = "unlock"]
       \/ /\ thr[t].op = "removeState"
          /\ tokens' = DeleteToken(tokens, thr[t].arg)
          /\ thr' = [thr EXCEPT ![t].pc = "unlock"]
    /\ UNCHANGED <<nextState, writer, readers, calls, trueCount, lateFalse>>
    /\ UNCHANGED <<jwtVars, mainVars>>

\* verifyAndConsumeState: if exists { delete(stateRepo.tokens, state) }
RegDelete(t) ==
    /\ thr[t].pc = "delete"
    /\ tokens' = DeleteToken(tokens, thr[t].arg)
    /\ thr' = [thr EXCEPT ![t].pc = "unlock"]
    /\ UNCHANGED <<nextState, writer, readers, calls, trueCount, lateFalse>>
    /\ UNCHANGED <<jwtVars, mainVars>>

\* The deferred Unlock / RUnlock, and the return to the caller.
RegUnlock(t) ==
    /\ thr[t].pc = "unlock"
    /\ IF LockKind(thr[t].op) = "read"
          THEN readers' = readers \ {t} /\ UNCHANGED writer
          ELSE writer' = 0 /\ UNCHANGED readers
    /\ thr' = [thr EXCEPT ![t].pc = "returned",
                          ![t].ret = IF thr[t].op \in {"isValidState", "verifyAndConsumeState"}
                                     THEN (IF thr[t].exists THEN "true" ELSE "false")
                                     ELSE "ok"]
    /\ IF thr[t].op = "verifyAndConsumeState"
          THEN /\ trueCount' = [trueCount EXCEPT ![thr[t].arg] = @ + (IF thr[t].exists THEN 1 ELSE 0)]
               /\ lateFalse' = [lateFalse EXCEPT ![thr[t].arg] =
                                   IF ~thr[t].exists /\ trueCount[thr[t].arg] > 0 THEN 1 ELSE @]
          ELSE UNCHANGED <<trueCount, lateFalse>>
    /\ UNCHANGED <<tokens, nextState, calls>>
    /\ UNCHANGED <<jwtVars, mainVars>>

\* The caller takes the result; the goroutine is free for the next request.
RegReturn(t) ==
    /\ thr[t].pc = "returned"
    /\ thr' = [thr EXCEPT ![t] = IdleThread]
    /\ UNCHANGED <<tokens, nextState, writer, readers, calls, trueCount, lateFalse>>
    /\ UNCHANGED <<jwtVars, mainVars>>

\* -------------------------------------------------------- session credential

\* expirationTime := time.Now().Add(24 * time.Hour * 7), in days
JWTLifetime == 7

\* config.LoadConfig().JWTSecret, and any other key a token may be signed with
JWTSecret == "secret"
Keys == {JWTSecret, "other"}

\* Signing methods registered in golang-jwt. HS256, HS384 and HS512 are the
\* values of type *jwt.SigningMethodHMAC (HS512 behaves as HS384 here).
Algs == {"HS256", "HS384", "RS256", "none"}
HMACAlgs == {"HS256", "HS384"}

\* Rows of the users table that JwtSpec signs credentials for.
JwtUsers == {[id |-> 1, email |-> "a@x"], [id |-> 2, email |-> "b@x"]}

\* No exp claim in the token.
NoExp == -1

\* What follows "Bearer " when it is not a well-formed JWT.
EmptyTok == [form |-> "empty", id |-> 0, email |-> "", exp |-> NoExp, alg |-> "none", key |-> "other"]
GarbageTok == [form |-> "garbage", id |-> 0, email |-> "", exp |-> NoExp, alg |-> "none", key |-> "other"]

\* GenerateJWT: claims id, email and exp, signed HS256 with the configured secret.
GenerateJWT(user, t) ==
    [form |-> "jwt", id |-> user.id, email |-> user.email, exp |-> t + JWTLifetime,
     alg |-> "HS256", key |-> JWTSecret]

\* Fault: a keyfunc that returns the secret without looking at the method.
MethodAccepted_Any(alg) == TRUE

\* The keyfunc of RequireJWT: token.Method.(*jwt.SigningMethodHMAC)
MethodAccepted(alg) == alg \in HMACAlgs

\* Fault: the signature is not verified.
SignatureValid_Any(tok, key) == TRUE

\* golang-jwt's verification of the signature with the key the keyfunc returned.
SignatureValid(tok, key) == tok.key = key

\* Fault: the exp claim is not validated.
NotExpired_Never(tok, t) == TRUE

\* golang-jwt's exp validation: now.Before(exp); a token without exp passes.
NotExpired(tok, t) == tok.exp = NoExp \/ t < tok.exp

\* Fault: whatever follows "Bearer " is taken for a valid token.
ParseWithClaims_Any(tok, t) == TRUE

\* jwt.ParseWithClaims(tokenString, &JWTClaims{}, keyfunc) returns no error.
ParseWithClaims(tok, t) ==
    /\ tok.form = "jwt"
    /\ MethodAccepted(tok.alg)
    /\ SignatureValid(tok, JWTSecret)
    /\ NotExpired(tok, t)

\* c.JSON(http.StatusUnauthorized, ...) followed by c.Abort()
\* The details argument of NewErrorResponse, an interface{}: nil, or a string,
\* which is "" for the zero value and Cause for err.Error().
Nil == "nil"
Cause == "cause"

Reject(msg, details) ==
    [ok |-> FALSE, status |-> 401, msg |-> msg, details |-> details, userID |-> 0,
     userEmail |-> ""]

\* The RequireJWT middleware on the Authorization header hdr at time t:
\* either c.Abort() with 401, or c.Next() with userID and userEmail set.
RequireJWT(hdr, t) ==
    IF hdr.scheme = "absent" THEN Reject("Authorization header required", Nil)
    ELSE IF hdr.scheme # "Bearer"
         THEN Reject("Authorization header must start with 'Bearer '", Nil)
    ELSE IF hdr.tok.form = "empty" THEN Reject("JWT token required", Nil)
    ELSE IF ~ParseWithClaims(hdr.tok, t) THEN Reject("Invalid JWT token", Cause)
    ELSE [ok |-> TRUE, status |-> 200, msg |-> "", details |-> Nil,
          userID |-> hdr.tok.id, userEmail |-> hdr.tok.email]

\* Days the clock of JwtSpec runs through.
MaxClock == 8

\* The exp claims of the tokens a client makes up: none, the first day of the
\* run, one lifetime later, and the last day.
ExpValues == {NoExp, 0, JWTLifetime, MaxClock}

\* The id and email claims of the tokens a client makes up (id 0: no id).
Identities == JwtUsers \cup {[id |-> 0, email |-> "a@x"]}

\* Every token string a client can put after "Bearer ": nothing, no JWT, a
\* token it makes up, or a credential the server issued.
AnyToken ==
    {EmptyTok, GarbageTok}
    \cup {[form |-> "jwt", id |-> u.id, email |-> u.email, exp |-> e, alg |-> a, key |-> k] :
             u \in Identities, e \in ExpValues, a \in Algs, k \in Keys}
    \cup {s.tok : s \in sessions}

\* Every Authorization header a client can send.
AnyHeader ==
    {[scheme |-> "absent", tok |-> EmptyTok], [scheme |-> "Basic", tok |-> GarbageTok]}
    \cup {[scheme |-> "Bearer", tok |-> tok] : tok \in AnyToken}

NoCheck == [hdr |-> [scheme |-> "absent", tok |-> EmptyTok], at |-> -1,
            res |-> Reject("", Nil)]

\* Sessions one run of JwtSpec mints.
MaxSessions == 1

\* time passes
JwtTick ==
    /\ now < MaxClock
    /\ now' = now + 1
    /\ UNCHANGED <<sessions, lastCheck>>
    /\ UNCHANGED <<regVars, mainVars>>

\* GenerateJWT is called for a user.
JwtIssue(user) ==
    /\ Cardinality(sessions) < MaxSessions
    /\ sessions' = sessions \cup {[tok |-> GenerateJWT(user, now), user |-> user, at |-> now]}
    /\ UNCHANGED <<now, lastCheck>>
    /\ UNCHANGED <<regVars, mainVars>>

\* A request with header hdr reaches a route behind RequireJWT.
JwtPresent(hdr) ==
    /\ lastCheck' = [hdr |-> hdr, at |-> now, res |-> RequireJWT(hdr, now)]
    /\ UNCHANGED <<now, sessions>>
    /\ UNCHANGED <<regVars, mainVars>>

JwtInit ==
    /\ now = 0
    /\ sessions = {}
    /\ lastCheck = NoCheck

JwtNext ==
    \/ JwtTick
    \/ \E user \in JwtUsers : JwtIssue(user)
    \/ \E hdr \in AnyHeader : JwtPresent(hdr)

\* ------------------------------------------------------------ the handlers

\* Requests the server handles at the same time.
NumFlows == 2
Flows == 1..NumFlows

\* Profile identifiers the providers return: Google emails, GitHub logins.
Emails == {"a@x", "b@x"}
Logins == {"alice", "bob"}

\* account_identifier IS NULL; a nil *string; a nil *time.Time
NULL == "NULL"
NilRefresh == -1
NoTime == -1

NoUser == [id |-> 0, email |-> ""]
\* An oauth2.Token: its access material is named after the state of the
\* authorization it answers, which no other grant shares; refresh is 0 for an
\* empty RefreshToken string.
NoGrant == [access |-> 0, refresh |-> 0]
NoCred == [id |-> 0, user |-> 0, platform |-> "", account |-> NULL, access |-> 0,
           refresh |-> NilRefresh, refreshIssuedAt |-> NoTime, createdAt |-> NoTime,
           updatedAt |-> NoTime]

\* GoogleCallbackURL / GithubCallbackURL of the configuration
CallbackURL(provider) ==
    IF provider = "google" THEN "cfg:/auth/google/callback" ELSE "cfg:/auth/github/callback"

\* createGoogleOAuthConfig / createGitHubOAuthConfig: the fixed scopes
Scopes(provider) ==
    IF provider = "google" THEN "userinfo.email userinfo.profile" ELSE "repo delete_repo"

NoURL == [provider |-> "", redirect |-> "", scope |-> "", state |-> 0,
          accessType |-> "", prompt |-> ""]

\* Fault: the URL is built without the state.
generateOAuthURL_NoState(provider, state) ==
    [provider |-> provider, redirect |-> CallbackURL(provider), scope |-> Scopes(provider),
     state |-> 0, accessType |-> "offline", prompt |-> "consent"]

\* generateGoogleOAuthURL / generateGitHubOAuthURL:
\* oauthConfig.AuthCodeURL(state, oauth2.AccessTypeOffline, oauth2.ApprovalForce)
generateOAuthURL(provider, state) ==
    [provider |-> provider, redirect |-> CallbackURL(provider), scope |-> Scopes(provider),
     state |-> state, accessType |-> "offline", prompt |-> "consent"]

\* An accounts list without entries. A list is kept as the number of times it
\* names each login.
NoAccounts == [l \in Logins |-> 0]

\* A response written with c.JSON: the status, the message, the details (Nil:
\* the body has no details key) and the payload of a success (token, authURL,
\* githubUsername, accounts). Neither the gin.H of NewErrorResponse nor a
\* success body has a key for an error code: code is "" in every response.
Response(status, msg, details) ==
    [status |-> status, msg |-> msg, details |-> details, code |-> "", tok |-> EmptyTok,
     url |-> NoURL, account |-> "", accounts |-> NoAccounts]

\* NewErrorResponse: an empty message is replaced by the default of the status.
NewErrorResponse(statusCode, message, details) ==
    Response(statusCode,
             IF message # "" THEN message
             ELSE IF statusCode = 400 THEN "Bad Request"
             ELSE IF statusCode = 401 THEN "Unauthorized"
             ELSE IF statusCode = 403 THEN "Forbidden"
             ELSE IF statusCode = 404 THEN "Not Found"
             ELSE IF statusCode = 500 THEN "Internal Server Error"
             ELSE "An error occurred",
             details)

\* AuthError.Message as ProcessAuthCode (kind "google") and AddAccount build
\* it for each AuthError.Code.
ErrorMessage(kind, code) ==
    IF code = "INVALID_STATE" THEN "Invalid state parameter"
    ELSE IF code = "TOKEN_EXCHANGE_FAILED"
         THEN "Failed to exchange authorization code for tokens"
    ELSE IF code = "USER_INFO_FAILED"
         THEN (IF kind = "google" THEN "Failed to retrieve user information from Google"
                                  ELSE "Failed to retrieve user information from GitHub")
    ELSE IF code = "USER_CREATION_FAILED" THEN "Failed to create or retrieve user account"
    ELSE IF code = "TOKEN_STORAGE_FAILED"
         THEN (IF kind = "google" THEN "Failed to store OAuth tokens in database"
                                  ELSE "Failed to store GitHub OAuth token in database")
    ELSE "Failed to generate authentication token"

\* A slot in which no handler is running.
IdleFlow == [kind |-> "none", pc |-> "idle", credOK |-> FALSE, uid |-> 0, state |-> 0,
             grant |-> NoGrant, ident |-> "", user |-> NoUser, found |-> NoCred,
             branch |-> "none", steps |-> <<>>]

\* The step just taken completed no request.
NoRequest == [kind |-> "none", uid |-> 0, err |-> "", steps |-> <<>>, resp |-> <<>>]

\* The slot a new request is served in: the first one without a handler.
Free(f) == flow[f].pc = "idle" /\ \A g \in Flows : g < f => flow[g].pc # "idle"

\* No request is being served.
Quiet == \A g \in Flows : flow[g].pc = "idle"

\* The handler with locals fl returns after writing responses resp with c.JSON;
\* code is the AuthError.Code of the error the service returned, if any.
Completed(fl, code, resp) ==
    [kind |-> fl.kind, uid |-> fl.uid, err |-> code, steps |-> fl.steps, resp |-> resp]

\* The handler in slot f returns: the slot is free again.
Finish(f, fl, code, resp) ==
    /\ flow' = [flow EXCEPT ![f] = IdleFlow]
    /\ last' = Completed(fl, code, resp)

\* The service returns AuthError{Message, Code, Details} and the handler
\* answers c.JSON(400, NewErrorResponse(400, authErr.Message, authErr.Details)):
\* Details, a string, is never nil there, and Code is not passed on.
ServiceError(f, fl, code, details) ==
    Finish(f, fl, code, <<NewErrorResponse(400, ErrorMessage(fl.kind, code), details)>>)

\* The handler in slot f goes on with locals fl.
Continue(f, fl) ==
    /\ flow' = [flow EXCEPT ![f] = fl]
    /\ last' = NoRequest

\* History: the steps of the flow in the order they ran, each with the outcome
\* the step really had (not what the caller made of it).
Log(fl, step, ok) == [fl EXCEPT !.steps = Append(@, [step |-> step, ok |-> ok])]

\* The request bodies a client can post. c.ShouldBindBodyWithJSON rejects a
\* body in which code or state (both binding:"required") is missing or empty.
Bodies == {[code |-> "", state |-> 1], [code |-> "c", state |-> 0]}
          \cup [code : {"c"}, state : StateValues]
BindOK(body) == body.code # "" /\ body.state # 0

\* Fault: no state value is taken for a pending one.
verifyAndConsumeState_Never(toks, state) == FALSE

\* Fault: every state value is taken for a pending one.
verifyAndConsumeState_Any(toks, state) == TRUE

\* verifyAndConsumeState taken as one step (it runs under the write lock):
\* the value it returns ...
verifyAndConsumeState(toks, state) == TokenExists(toks, state)

\* Fault: a state that was not pending is pending after the lookup.
ConsumeState_Remember(toks, state) ==
    IF state \in toks THEN toks \ {state} ELSE toks \cup {state}

\* Fault: the token is verified and left in the registry.
ConsumeState_Keep(toks, state) == toks

\* ... and the registry it leaves.
ConsumeState(toks, state) ==
    IF TokenExists(toks, state) THEN DeleteToken(toks, state) ELSE toks

\* History: hdr carries a credential this server minted, not yet expired at t.
Genuine(hdr, t) ==
    /\ hdr.scheme = "Bearer"
    /\ \E s \in sessions : s.tok = hdr.tok /\ t < s.at + JWTLifetime

\* The identity a client puts in a credential it makes up itself.
Forged == GenerateJWT([id |-> 1, email |-> "a@x"], 0)

\* The headers a client can send: none, another scheme, a malformed token, a
\* credential handed out earlier, one the server signed a lifetime ago, or one
\* the client signs itself with a key of its own or with no signature (it does
\* not know JWTSecret).
ClientHeaders ==
    {[scheme |-> "absent", tok |-> EmptyTok], [scheme |-> "Basic", tok |-> GarbageTok],
     [scheme |-> "Bearer", tok |-> GarbageTok],
     [scheme |-> "Bearer", tok |-> GenerateJWT([id |-> 1, email |-> "a@x"], now - JWTLifetime)],
     [scheme |-> "Bearer", tok |-> [Forged EXCEPT !.key = "other"]],
     [scheme |-> "Bearer", tok |-> [Forged EXCEPT !.key = "other", !.alg = "none"]]}
    \cup {[scheme |-> "Bearer", tok |-> s.tok] : s \in sessions}

\* What the providers answer to a code exchange and to a profile request.
ExchangeOutcomes == {"ok", "transport", "rejected", "emptyAccess", "expired"}
ProfileOutcomes == {"ok", "transport", "status", "decode", "missing"}

\* oauthConfig.Exchange returned no error.
ExchangeReturned(outcome) == outcome \notin {"transport", "rejected"}

\* oauth2.Token.Valid: a non-empty access token that has not expired.
TokenValid(outcome) == outcome \notin {"emptyAccess", "expired"}

\* FindUserByEmail: db.DB.Where("email = ?", email).First(&user)
FindUserByEmail(rows, email) == {u \in rows : u.email = email}

\* Fault: a unique index that covers the first row of the table only.
EmailTaken_FirstRow(rows, email) == \E u \in rows : u.id = 1 /\ u.email = email

\* Fault: a users table without the unique index on email.
EmailTaken_Never(rows, email) == FALSE

\* The unique index on users.email rejects the insert.
EmailTaken(rows, email) == \E u \in rows : u.email = email

\* uuid.New(): an id no row has (rows are never deleted).
NewID(rows) == Cardinality(rows) + 1

\* UpsertToken: db.DB.Where("user_id = ? AND platform = ?", userID, platform)
UpsertTokenWhere(rows, uid, platform) ==
    {c \in rows : c.user = uid /\ c.platform = platform}

\* Fault: the lookup leaves out the account identifier.
GitHubTokenWhere_AnyAccount(rows, uid, login) ==
    {c \in rows : c.user = uid /\ c.platform = "GITHUB"}

\* CreateOrUpdateGitHubToken:
\* db.DB.Where("user_id = ? AND platform = ? AND account_identifier = ?", ...)
GitHubTokenWhere(rows, uid, login) ==
    {c \in rows : c.user = uid /\ c.platform = "GITHUB" /\ c.account = login}

\* CreateTokenWithAccountIdentifier: the row it builds at time t.
CreateTokenWithAccountIdentifier(id, uid, platform, account, access, refresh, t) ==
    [id |-> id, user |-> uid, platform |-> platform, account |-> account, access |-> access,
     refresh |-> refresh, refreshIssuedAt |-> IF refresh # NilRefresh THEN t ELSE NoTime,
     createdAt |-> t, updatedAt |-> t]

\* Fault: the query leaves out the user_id condition.
GetGitHubTokensForUser_AnyUser(rows, uid) == {c \in rows : c.platform = "GITHUB"}

\* GetGitHubTokensForUser:
\* db.DB.Where("user_id = ? AND platform = ?", userID, "GITHUB").Find(&tokens)
GetGitHubTokensForUser(rows, uid) == {c \in rows : c.user = uid /\ c.platform = "GITHUB"}

\* GetAccounts: the AccountIdentifier of every token found that has one.
GetAccounts(rows, uid) ==
    [l \in Logins |->
        Cardinality({c \in GetGitHubTokensForUser(rows, uid) : c.account # NULL /\ c.account = l})]

\* Fault: the update touches the timestamp only.
UpdateToken_Stale(existing, access, refresh, t) == [existing EXCEPT !.updatedAt = t]

\* UpdateToken: the struct it saves at time t (AccessTokenIssuedAt moves with
\* UpdatedAt, AccessTokenExpiry with AccessToken).
UpdateToken(existing, access, refresh, t) ==
    [existing EXCEPT !.access = access, !.refresh = refresh,
                     !.refreshIssuedAt = IF refresh # NilRefresh THEN t ELSE NoTime,
                     !.updatedAt = t]

\* uniqueIndex:idx_user_platform_account on (user_id, platform,
\* account_identifier). In a Postgres unique index two NULLs are distinct, so a
\* row whose account_identifier is NULL never conflicts.
UniqueViolation(rows, row) ==
    \E c \in rows : /\ c.user = row.user
                    /\ c.platform = row.platform
                    /\ c.account # NULL /\ row.account # NULL
                    /\ c.account = row.account

\* The foreign key tokens.user_id -> users.id
ForeignKeyOK(rows, uid) == \E u \in rows : u.id = uid

\* Fault: the struct is stored as a further row, the old one stays.
Save_Insert(rows, row) == rows \cup {row}

\* db.DB.Save(existingToken): UPDATE ... WHERE id = existingToken.ID, all columns.
Save(rows, row) == {c \in rows : c.id # row.id} \cup {row}

\* The refresh token each service passes down: ProcessAuthCode passes
\* &token.RefreshToken (never nil; 0 stands for the empty string), AddAccount
\* passes nil.
RefreshArg(kind, grant) == IF kind = "google" THEN grant.refresh ELSE NilRefresh

regOnlyVars == <<writer, readers, thr, calls, trueCount, lateFalse>>

\* The error of util.GenerateRandomState when crypto/rand cannot be read.
RandError == "rand"

\* Fault: the error of GenerateRandomState is dropped and the empty string it
\* came with is stored as a state.
generateAndAddState_IgnoreError(toks, drawn, randOK) ==
    IF randOK
    THEN [err |-> Nil, state |-> drawn + 1, tokens |-> StoreToken(toks, drawn + 1),
          drawn |-> drawn + 1]
    ELSE [err |-> Nil, state |-> 0, tokens |-> StoreToken(toks, 0), drawn |-> drawn]

\* generateAndAddState on a registry toks after drawn draws: the state and a
\* nil error with the state stored, or the error of GenerateRandomState with
\* nothing stored (addState is not reached).
generateAndAddState(toks, drawn, randOK) ==
    IF randOK
    THEN [err |-> Nil, state |-> drawn + 1, tokens |-> StoreToken(toks, drawn + 1),
          drawn |-> drawn + 1]
    ELSE [err |-> RandError, state |-> 0, tokens |-> toks, drawn |-> drawn]

\* GenerateOAuthURL and the handler's response: generateAndAddState, then the
\* URL built on the state, or the 500 of the handler when it returned an error.
OAuthURLResponse(f, fl, provider, randOK) ==
    LET r == generateAndAddState(tokens, nextState, randOK) IN
    /\ randOK => nextState < MaxStates
    /\ nextState' = r.drawn
    /\ tokens' = r.tokens
    /\ IF r.err = Nil
       THEN Finish(f, [fl EXCEPT !.state = r.state], "",
                   <<[Response(200, "", Nil) EXCEPT !.url = generateOAuthURL(provider, r.state)]>>)
       ELSE Finish(f, fl, "STATE_GENERATION_FAILED", <<NewErrorResponse(500, "", Nil)>>)

\* GET /auth/google/oauth-url: GenerateGoogleOAuthURLHandler (a public route).
GoogleOAuthURL(f, randOK) ==
    /\ Free(f)
    /\ OAuthURLResponse(f, [IdleFlow EXCEPT !.kind = "googleURL"], "google", randOK)
    /\ UNCHANGED <<users, creds, jwtVars, regOnlyVars>>

\* The redirect URL GenerateOAuthURL of the first auth package falls back on,
\* and a URL of the client's own choosing.
LegacyCallbackURL == "http://localhost:3000/auth/google/callback"
ClientURL == "https://client.example/cb"

\* What a client can send as the body of a URL request to
\* GenerateOAuthURLHandler: one that does not bind, none or an empty
\* redirectURL, or a redirectURL of its own.
URLBodies ==
    {[ok |-> FALSE, redirectURL |-> ""], [ok |-> TRUE, redirectURL |-> ""],
     [ok |-> TRUE, redirectURL |-> ClientURL]}

\* GenerateOAuthUrlWithRedirectUrl: createGoogleAuth(redirectURL), with the
\* default for an empty redirectURL, then AuthCodeURL(state, ...).
GenerateOAuthUrlWithRedirectUrl(state, redirectURL) ==
    [generateOAuthURL("google", state) EXCEPT
        !.redirect = IF redirectURL = "" THEN LegacyCallbackURL ELSE redirectURL]

\* GenerateOAuthURLHandler of the first auth package: the state is generated
\* and stored first, then the body is bound (a body that does not bind is
\* answered 400 and the state stays stored), then the URL is built on the
\* redirectURL of the body.
GenerateOAuthURLHandler(f, randOK, body) ==
    LET fl == [IdleFlow EXCEPT !.kind = "legacyURL"]
        r == generateAndAddState(tokens, nextState, randOK) IN
    /\ Free(f)
    /\ randOK => nextState < MaxStates
    /\ nextState' = r.drawn
    /\ tokens' = r.tokens
    /\ IF r.err # Nil
       THEN Finish(f, fl, "STATE_GENERATION_FAILED", <<NewErrorResponse(500, "", Nil)>>)
       ELSE IF ~body.ok
       THEN Finish(f, [fl EXCEPT !.state = r.state], "", <<Response(400, "", Cause)>>)
       ELSE Finish(f, [fl EXCEPT !.state = r.state], "",
                   <<[Response(200, "", Nil) EXCEPT
                         !.url = GenerateOAuthUrlWithRedirectUrl(r.state, body.redirectURL)]>>)
    /\ UNCHANGED <<users, creds, jwtVars, regOnlyVars>>

\* RequireJWT on a route of the /auth/github group (kind names the route)
\* turns the request away: c.AbortWithStatusJSON, the handler never runs and
\* the body is never read.
RequireJWTAbort(f, kind, hdr) ==
    /\ Free(f)
    /\ LET res == RequireJWT(hdr, now) IN
       /\ ~res.ok
       /\ Finish(f, [IdleFlow EXCEPT !.kind = kind], "",
                 <<NewErrorResponse(res.status, res.msg, res.details)>>)
    /\ UNCHANGED <<tokens, nextState, users, creds, jwtVars, regOnlyVars>>

\* GET /auth/github/oauth-url: RequireJWT passes the request on to
\* GenerateGitHubOAuthURLHandler.
GitHubOAuthURL(f, hdr, randOK) ==
    /\ Free(f)
    /\ RequireJWT(hdr, now).ok
    /\ OAuthURLResponse(f, [IdleFlow EXCEPT !.kind = "githubURL",
                                            !.uid = RequireJWT(hdr, now).userID],
                        "github", randOK)
    /\ UNCHANGED <<users, creds, jwtVars, regOnlyVars>>

\* The start shared by ProcessAuthCode, AddAccount and AuthCodeHandler: bind
\* the body, then verifyAndConsumeState(request.State) before anything else.
BindAndVerify(f, fl, body) ==
    IF ~BindOK(body)
    THEN /\ Finish(f, fl, "", <<NewErrorResponse(400, "Incorrect body structure", Cause)>>)
         /\ UNCHANGED tokens
    ELSE /\ tokens' = ConsumeState(tokens, body.state)
         /\ IF ~verifyAndConsumeState(tokens, body.state)
            THEN LET failed == Log([fl EXCEPT !.state = body.state], "verify",
                                   body.state \in tokens) IN
                 IF fl.kind = "legacy"
                 THEN Finish(f, failed, "", <<Response(400, "Invalid state parameter", Nil)>>)
                 ELSE ServiceError(f, failed, "INVALID_STATE", "")
            ELSE Continue(f, [Log(fl, "verify", body.state \in tokens) EXCEPT
                                 !.state = body.state, !.pc = "exchange"])

\* POST /auth/google: GoogleAuthCodeHandler and the start of ProcessAuthCode.
GoogleAuthCode(f, body) ==
    /\ Free(f)
    /\ BindAndVerify(f, [IdleFlow EXCEPT !.kind = "google"], body)
    /\ UNCHANGED <<nextState, users, creds, jwtVars, regOnlyVars>>

\* POST /auth/github/accounts: RequireJWT passes the request on to
\* AddGitHubAccountHandler, which reads the user id the middleware stored and
\* starts AddAccount.
AddGitHubAccount(f, hdr, body) ==
    /\ Free(f)
    /\ RequireJWT(hdr, now).ok
    /\ LET fl == [IdleFlow EXCEPT !.kind = "github", !.uid = RequireJWT(hdr, now).userID] IN
       IF fl.uid = 0
       THEN /\ Finish(f, fl, "", <<NewErrorResponse(401, "User ID not found in token", Nil)>>)
            /\ UNCHANGED tokens
       ELSE BindAndVerify(f, fl, body)
    /\ UNCHANGED <<nextState, users, creds, jwtVars, regOnlyVars>>

\* GET /auth/github/accounts: RequireJWT passes the request on to
\* GetGitHubAccountsHandler; GetAccounts lists the user's GitHub accounts or
\* reports the error of the query (dbOK false).
GetGitHubAccounts(f, hdr, dbOK) ==
    /\ Free(f)
    /\ RequireJWT(hdr, now).ok
    /\ LET fl == [IdleFlow EXCEPT !.kind = "githubAccounts",
                                  !.uid = RequireJWT(hdr, now).userID] IN
       IF fl.uid = 0
       THEN Finish(f, fl, "", <<NewErrorResponse(401, "User ID not found in token", Nil)>>)
       ELSE IF ~dbOK
       THEN Finish(f, fl, "ACCOUNTS_RETRIEVAL_FAILED",
                   <<NewErrorResponse(500, "Failed to retrieve GitHub accounts", Cause)>>)
       ELSE Finish(f, fl, "",
                   <<[Response(200, "", Nil) EXCEPT !.accounts = GetAccounts(creds, fl.uid)]>>)
    /\ UNCHANGED <<tokens, nextState, users, creds, jwtVars, regOnlyVars>>

\* The first AuthCodeHandler of package auth (Google only, nothing persisted).
AuthCodeHandler(f, body) ==
    /\ Free(f)
    /\ BindAndVerify(f, [IdleFlow EXCEPT !.kind = "legacy"], body)
    /\ UNCHANGED <<nextState, users, creds, jwtVars, regOnlyVars>>

\* exchangeGoogleCodeForTokens / exchangeGitHubCodeForTokens and the caller's
\* error check. In AuthCodeHandler the error branch lacks its return: the
\* handler goes on to write the success response as well.
ExchangeCode(f, outcome, hasRefresh) ==
    /\ flow[f].pc = "exchange"
    /\ hasRefresh => flow[f].kind = "google" /\ outcome = "ok"
    /\ IF ExchangeReturned(outcome) /\ TokenValid(outcome)
       THEN IF flow[f].kind = "legacy"
            THEN Finish(f, Log(flow[f], "exchange", outcome = "ok"), "",
                        <<Response(200, "success", Nil)>>)
            ELSE Continue(f, [Log(flow[f], "exchange", outcome = "ok") EXCEPT
                                 !.pc = "profile",
                                 !.grant = [access |-> flow[f].state,
                                            refresh |-> IF hasRefresh THEN flow[f].state
                                                                      ELSE 0]])
       ELSE IF flow[f].kind = "legacy"
            THEN Finish(f, Log(flow[f], "exchange", outcome = "ok"), "",
                        <<Response(400, "Problem in exchanging code for token.", Cause),
                          Response(200, "success", Nil)>>)
            ELSE ServiceError(f, Log(flow[f], "exchange", outcome = "ok"),
                              "TOKEN_EXCHANGE_FAILED", Cause)
    /\ UNCHANGED <<tokens, nextState, users, creds, jwtVars, regOnlyVars>>

\* Fault: the sign-in goes from the profile straight to the upsert.
AfterProfile_SkipUser(kind) == "lookup"

\* What follows the profile: ProcessAuthCode calls CreateUserIfNotPresent and
\* only then UpsertToken; AddAccount, whose user is the one of the session
\* credential, goes to CreateOrUpdateGitHubToken.
AfterProfile(kind) == IF kind = "google" THEN "findUser" ELSE "lookup"

\* The request to the userinfo endpoint came back with a success status and
\* a body that decodes.
ProfileReturned(outcome) == outcome \notin {"transport", "status", "decode"}

\* Fault: the profile is not validated.
ValidateStruct_Skip(outcome) == TRUE

\* binding.Validator.ValidateStruct(userInfo) returns no error: the required
\* fields (email, name / login, id) are there.
ValidateStruct(outcome) == outcome # "missing"

\* getGoogleUserInfo / getGitHubUserInfo and the caller's error check; ident
\* is the email or the login of the profile, empty unless the provider sent a
\* complete profile.
FetchProfile(f, outcome, ident) ==
    /\ flow[f].pc = "profile"
    /\ IF outcome = "ok"
       THEN ident \in (IF flow[f].kind = "google" THEN Emails ELSE Logins)
       ELSE ident = ""
    /\ IF ProfileReturned(outcome) /\ ValidateStruct(outcome)
       THEN Continue(f, [Log(flow[f], "profile", outcome = "ok") EXCEPT
                            !.ident = ident,
                            !.pc = AfterProfile(flow[f].kind)])
       ELSE ServiceError(f, Log(flow[f], "profile", outcome = "ok"),
                         "USER_INFO_FAILED", Cause)
    /\ UNCHANGED <<tokens, nextState, users, creds, jwtVars, regOnlyVars>>

\* CreateUserIfNotPresent, first statement: FindUserByEmail. Any error, the
\* not-found one or another (dbOK false), sends the caller on to CreateUser.
FindUser(f, dbOK) ==
    /\ flow[f].pc = "findUser"
    /\ LET hit == FindUserByEmail(users, flow[f].ident) IN
       IF dbOK /\ hit # {}
       THEN \E u \in hit :
               Continue(f, [Log(flow[f], "user", TRUE) EXCEPT !.user = u, !.pc = "lookup"])
       ELSE Continue(f, [flow[f] EXCEPT !.pc = "createUser"])
    /\ UNCHANGED <<tokens, nextState, users, creds, jwtVars, regOnlyVars>>

\* Fault: the insert overwrites the rows the table holds.
Create_Replace(rows, row) == {row}

\* db.DB.Create(user): the INSERT, once the database has accepted it.
Create(rows, row) == rows \cup {row}

\* CreateUserIfNotPresent, second statement: CreateUser, an INSERT that the
\* unique index on email or a database error (dbOK false) can reject.
CreateUser(f, dbOK) ==
    /\ flow[f].pc = "createUser"
    /\ IF dbOK /\ ~EmailTaken(users, flow[f].ident)
       THEN LET u == [id |-> NewID(users), email |-> flow[f].ident] IN
            /\ users' = Create(users, u)
            /\ Continue(f, [Log(flow[f], "user", TRUE) EXCEPT !.user = u, !.pc = "lookup"])
       ELSE /\ UNCHANGED users
            /\ ServiceError(f, Log(flow[f], "user", FALSE), "USER_CREATION_FAILED", Cause)
    /\ UNCHANGED <<tokens, nextState, creds, jwtVars, regOnlyVars>>

\* Fault: every credential is stored under the first user of the table.
OwnerID_First(fl) == 1

\* The user id the credential is stored under: user.ID in ProcessAuthCode, the
\* userID of the session credential in AddAccount.
OwnerID(fl) == IF fl.kind = "google" THEN fl.user.id ELSE fl.uid

\* The errors of the two statements of an upsert: gorm.ErrRecordNotFound, and
\* any other error of the lookup or of the write (their err.Error() texts).
ErrRecordNotFound == "record not found"
LookupError == "lookup error"
WriteError == "write error"

\* result.Error of Where(...).First(&existingToken): nil with a matching row,
\* ErrRecordNotFound without one, another error when the query itself fails.
First(hit, dbOK) ==
    IF ~dbOK THEN LookupError ELSE IF hit = {} THEN ErrRecordNotFound ELSE Nil

\* Fault: every error of the lookup is taken for "no such row".
UpsertBranch_CreateOnError(err) == IF err = Nil THEN "update" ELSE "create"

\* The if / else if / return of UpsertToken and CreateOrUpdateGitHubToken.
UpsertBranch(err) ==
    IF err = Nil THEN "update"
    ELSE IF err = ErrRecordNotFound THEN "create"
    ELSE "return"

\* UpsertToken / CreateOrUpdateGitHubToken, first statement: the lookup and
\* the branch taken on its result. An error that is not ErrRecordNotFound is
\* returned as it is, and the service puts its text in the AuthError.
LookupToken(f, dbOK) ==
    /\ flow[f].pc = "lookup"
    /\ LET hit == IF flow[f].kind = "google"
                  THEN UpsertTokenWhere(creds, OwnerID(flow[f]), "GOOGLE")
                  ELSE GitHubTokenWhere(creds, OwnerID(flow[f]), flow[f].ident)
           err == First(hit, dbOK)
           branch == UpsertBranch(err) IN
       IF branch = "return"
       THEN ServiceError(f, Log(flow[f], "persist", FALSE), "TOKEN_STORAGE_FAILED", err)
       ELSE IF branch = "create"
       THEN Continue(f, [flow[f] EXCEPT !.branch = "create", !.pc = "write"])
       ELSE \E c \in hit :
               Continue(f, [flow[f] EXCEPT !.branch = "update", !.found = c, !.pc = "write"])
    /\ UNCHANGED <<tokens, nextState, users, creds, jwtVars, regOnlyVars>>

\* The row CreateToken / CreateTokenWithAccountIdentifier inserts for a flow
\* with locals fl at time t.
NewTokenRow(rows, fl, t) ==
    CreateTokenWithAccountIdentifier(
        NewID(rows), OwnerID(fl),
        IF fl.kind = "google" THEN "GOOGLE" ELSE "GITHUB",
        IF fl.kind = "google" THEN NULL ELSE fl.ident,
        fl.grant.access, RefreshArg(fl.kind, fl.grant), t)

\* Fault: the write looks the key up again and updates the row it finds.
UpsertWrite_Recheck(rows, fl, t) ==
    LET hit == {c \in rows : /\ c.user = (IF fl.kind = "google" THEN fl.user.id ELSE fl.uid)
                             /\ c.platform = (IF fl.kind = "google" THEN "GOOGLE" ELSE "GITHUB")
                             /\ fl.kind = "github" => c.account = fl.ident} IN
    IF hit # {}
    THEN LET c == CHOOSE c \in hit : TRUE IN
         {d \in rows : d.id # c.id}
             \cup {[c EXCEPT !.access = fl.grant.access, !.updatedAt = t]}
    ELSE rows \cup {[id |-> Cardinality(rows) + 1,
                     user |-> IF fl.kind = "google" THEN fl.user.id ELSE fl.uid,
                     platform |-> IF fl.kind = "google" THEN "GOOGLE" ELSE "GITHUB",
                     account |-> IF fl.kind = "google" THEN NULL ELSE fl.ident,
                     access |-> fl.grant.access, refresh |-> NilRefresh,
                     refreshIssuedAt |-> NoTime, createdAt |-> t, updatedAt |-> t]}

\* Fault: the write reports success and stores nothing.
UpsertWrite_Lost(rows, fl, t) == rows

\* The tokens table after the second statement of the upsert: UpdateToken
\* saves the row the lookup found, otherwise the new row is inserted.
UpsertWrite(rows, fl, t) ==
    IF fl.branch = "update"
    THEN Save(rows, UpdateToken(fl.found, fl.grant.access, RefreshArg(fl.kind, fl.grant), t))
    ELSE rows \cup {NewTokenRow(rows, fl, t)}

\* The database rejects the INSERT: a constraint of the tokens table.
WriteRejected(rows, userRows, fl, t) ==
    /\ fl.branch = "create"
    /\ \/ UniqueViolation(rows, NewTokenRow(rows, fl, t))
       \/ ~ForeignKeyOK(userRows, OwnerID(fl))

\* UpsertToken / CreateOrUpdateGitHubToken, second statement, and what the
\* service does with its result: AddAccount confirms the link, ProcessAuthCode
\* goes on to GenerateJWT.
WriteToken(f, dbOK) ==
    /\ flow[f].pc = "write"
    /\ IF dbOK /\ ~WriteRejected(creds, users, flow[f], now)
       THEN /\ creds' = UpsertWrite(creds, flow[f], now)
            /\ IF flow[f].kind = "google"
               THEN Continue(f, [Log(flow[f], "persist", TRUE) EXCEPT !.pc = "session"])
               ELSE Finish(f, Log(Log(flow[f], "persist", TRUE), "confirm", TRUE), "",
                           <<[Response(200, "GitHub account linked successfully", Nil)
                                 EXCEPT !.account = flow[f].ident]>>)
       ELSE /\ UNCHANGED creds
            /\ ServiceError(f, Log(flow[f], "persist", FALSE), "TOKEN_STORAGE_FAILED", WriteError)
    /\ UNCHANGED <<tokens, nextState, users, jwtVars, regOnlyVars>>

\* ProcessAuthCode, last step: s.authService.GenerateJWT(user), then the
\* success response, or the error branch when token.SignedString returns an
\* error (signOK false).
IssueSession(f, signOK) ==
    /\ flow[f].pc = "session"
    /\ IF signOK
       THEN LET tok == GenerateJWT(flow[f].user, now) IN
            /\ sessions' = sessions \cup {[tok |-> tok, user |-> flow[f].user, at |-> now]}
            /\ Finish(f, Log(flow[f], "session", TRUE), "",
                      <<[Response(200, "Authentication successful", Nil) EXCEPT !.tok = tok]>>)
       ELSE /\ UNCHANGED sessions
            /\ ServiceError(f, Log(flow[f], "session", FALSE), "JWT_GENERATION_FAILED", Cause)
    /\ UNCHANGED <<tokens, nextState, users, creds, now, lastCheck, regOnlyVars>>

MainInit ==
    /\ users = {}
    /\ creds = {}
    /\ flow = [f \in Flows |-> IdleFlow]
    /\ last = NoRequest

RegInit ==
    /\ tokens = {}
    /\ nextState = 0
    /\ writer = 0
    /\ readers = {}
    /\ thr = [t \in Threads |-> IdleThread]
    /\ calls = 0
    /\ trueCount = [s \in StateValues |-> 0]
    /\ lateFalse = [s \in StateValues |-> 0]

\* The server after start-up: an empty registry, an unlocked mutex, no request
\* in progress and, on a fresh database, empty tables.
Init == RegInit /\ JwtInit /\ MainInit

RegNext ==
    \E t \in Threads :
        \/ \E op \in {"isValidState", "verifyAndConsumeState", "removeState"} :
               \E state \in StateValues : RegCall(t, op, state)
        \/ RegGenerate(t)
        \/ RegGenerateFails(t)
        \/ RegLock(t)
        \/ RegBody(t)
        \/ RegDelete(t)
        \/ RegUnlock(t)
        \/ RegReturn(t)

RegSpec == Init /\ [][RegNext]_vars

JwtSpec == Init /\ [][JwtNext]_vars


\* The next step of the handler running in slot f.
FlowStep(f) ==
    \/ \E outcome \in ExchangeOutcomes, hasRefresh \in BOOLEAN :
           ExchangeCode(f, outcome, hasRefresh)
    \/ \E outcome \in ProfileOutcomes, ident \in Emails \cup Logins \cup {""} :
           FetchProfile(f, outcome, ident)
    \/ \E dbOK \in BOOLEAN : FindUser(f, dbOK)
    \/ \E dbOK \in BOOLEAN : CreateUser(f, dbOK)
    \/ \E dbOK \in BOOLEAN : LookupToken(f, dbOK)
    \/ \E dbOK \in BOOLEAN : WriteToken(f, dbOK)
    \/ \E signOK \in BOOLEAN : IssueSession(f, signOK)

\* The steps of the handlers that are already running.
Step == \E f \in Flows : FlowStep(f)

\* A client asks for an authorization URL.
Authorize ==
    \/ \E f \in Flows, randOK \in BOOLEAN : GoogleOAuthURL(f, randOK)
    \/ \E f \in Flows, hdr \in ClientHeaders, randOK \in BOOLEAN : GitHubOAuthURL(f, hdr, randOK)
    \/ \E f \in Flows, randOK \in BOOLEAN, body \in URLBodies :
           GenerateOAuthURLHandler(f, randOK, body)

\* Another request arrives and its handler runs up to its first blocking call.
Arrive ==
    \/ \E f \in Flows, kind \in {"githubURL", "github", "githubAccounts"},
          hdr \in ClientHeaders :
           RequireJWTAbort(f, kind, hdr)
    \/ \E f \in Flows, hdr \in ClientHeaders, dbOK \in BOOLEAN : GetGitHubAccounts(f, hdr, dbOK)
    \/ \E f \in Flows, body \in Bodies : GoogleAuthCode(f, body)
    \/ \E f \in Flows, hdr \in ClientHeaders, body \in Bodies : AddGitHubAccount(f, hdr, body)
    \/ \E f \in Flows, body \in Bodies : AuthCodeHandler(f, body)

\* gin serves every request on a goroutine of its own; a run of Spec starts
\* at most MaxParStates authorizations.
Next == (nextState < MaxParStates /\ Authorize) \/ Arrive \/ Step

Spec == Init /\ [][Next]_vars

\* The same server when its clients send one request at a time.
SeqNext == (Quiet /\ (Authorize \/ Arrive)) \/ Step

SeqSpec == Init /\ [][SeqNext]_vars

\* The call a handler is blocked in comes back within a bounded time. The
\* code exchanges run oauthConfig.Exchange(ctx, code) under a context of 10
\* seconds and the GitHub profile request runs on a resty client with
\* SetTimeout(10 s); database calls and the signing are local. The Google
\* profile request is client.Get(url) on oauth2.NewClient(ctx, ...): the
\* request carries no context and the client no Timeout, so the 10 seconds of
\* ctx do not bound it.
Bounded(fl) == ~(fl.kind = "google" /\ fl.pc = "profile")

\* SeqSpec with the progress the code has: a handler blocked in a bounded call
\* takes its next step.
LiveSpec ==
    /\ Init /\ [][SeqNext]_vars
    /\ \A f \in Flows : WF_vars(Bounded(flow[f]) /\ FlowStep(f))

\* The client whose sign-in an earlier run of the server served.
Returning == [id |-> 1, email |-> "a@x"]

\* The server restarted after Returning signed in: the database and the
\* credential the client holds outlive the process, the registry does not.
\* The stored grant carries material no grant of this run has.
LinkInit ==
    /\ RegInit
    /\ now = 0
    /\ sessions = {[tok |-> GenerateJWT(Returning, 0), user |-> Returning, at |-> 0]}
    /\ lastCheck = NoCheck
    /\ users = {Returning}
    /\ creds = {CreateTokenWithAccountIdentifier(1, Returning.id, "GOOGLE", NULL,
                                                 MaxStates + 1, MaxStates + 1, 0)}
    /\ flow = [f \in Flows |-> IdleFlow]
    /\ last = NoRequest

LinkSpec == LinkInit /\ [][SeqNext]_vars

\* The restarted server of LinkInit with its requests served concurrently.
LinkParSpec == LinkInit /\ [][Next]_vars

\* ------------------------------------------------------------------ claims

\* A goroutine that has read the map inside verifyAndConsumeState.
Decided(t) ==
    /\ thr[t].op = "verifyAndConsumeState"
    /\ thr[t].pc \in {"delete", "unlock", "returned"}

\* C1: for every state token, verifyAndConsumeState returns true at most once
\* over the whole run: once a call has returned true the token is gone from
\* the registry, and every call that returns after it returns false.
C1_ConsumedOnce ==
    \A s \in StateValues :
        /\ trueCount[s] <= 1
        /\ trueCount[s] = 1 => s \notin tokens

\* A token was verified with true and a later verification of it returned false.
C1_Witness == \E s \in StateValues : trueCount[s] = 1 /\ lateFalse[s] = 1

\* C2: verifyAndConsumeState is atomic. The check and the delete of one caller
\* run with no other goroutine inside a locked section, the token a caller
\* found is still there when it deletes it, and of two callers that are in
\* the function with the same token at most one has found it.
C2_AtomicConsume ==
    /\ \A t \in Threads :
          thr[t].pc \in {"body", "delete", "unlock"} /\ LockKind(thr[t].op) = "write"
              => writer = t /\ readers = {}
    /\ \A t \in Threads :
          thr[t].op = "verifyAndConsumeState" /\ thr[t].pc = "delete"
              => thr[t].exists /\ thr[t].arg \in tokens
    /\ \A t1, t2 \in Threads :
          t1 # t2 /\ Decided(t1) /\ Decided(t2) /\ thr[t1].arg = thr[t2].arg
              => ~(thr[t1].exists /\ thr[t2].exists)

\* Two goroutines are in verifyAndConsumeState with the same token at once:
\* one has found it and is back with true, the other is about to leave the
\* locked section without having found it.
C2_Witness ==
    \E t1, t2 \in Threads :
        /\ t1 # t2 /\ Decided(t1) /\ Decided(t2) /\ thr[t1].arg = thr[t2].arg
        /\ thr[t1].pc = "returned" /\ thr[t1].ret = "true"
        /\ thr[t2].pc = "unlock" /\ ~thr[t2].exists

\* The credential of session s is in the header RequireJWT examined last.
Presented(s) == lastCheck.hdr.scheme = "Bearer" /\ lastCheck.hdr.tok = s.tok

\* C6: a credential GenerateJWT issued for user U passes RequireJWT exactly
\* while less than JWTLifetime has gone by since it was issued, and then the
\* request carries U's id and email; a token signed with another key, and a
\* token signed with the secret whose exp is not in the future, are rejected.
C6_IssuedVerifies ==
    /\ \A s \in sessions :
          Presented(s) =>
              /\ lastCheck.res.ok <=> lastCheck.at < s.at + JWTLifetime
              /\ lastCheck.res.ok => /\ lastCheck.res.userID = s.user.id
                                     /\ lastCheck.res.userEmail = s.user.email
    /\ lastCheck.hdr.tok.key # JWTSecret => ~lastCheck.res.ok
    /\ lastCheck.hdr.tok.exp # NoExp /\ lastCheck.hdr.tok.exp <= lastCheck.at
          => ~lastCheck.res.ok

\* A credential issued on an earlier day was accepted on the last day of its
\* life, with the id and email of its user.
C6_Witness ==
    \E s \in sessions :
        /\ Presented(s) /\ lastCheck.res.ok
        /\ lastCheck.at = s.at + JWTLifetime - 1
        /\ lastCheck.res.userID = s.user.id

\* C7 as stated: RequireJWT accepts no token whose alg is not HS256.
C7_OnlyHS256 == lastCheck.res.ok => lastCheck.hdr.tok.alg = "HS256"

\* C7: RequireJWT accepts only tokens whose alg is of the HMAC family (HS256,
\* HS384, HS512); a token with any other alg is rejected whatever key signed
\* it, and an HMAC token other than HS256 signed with the secret is accepted.
C7_OnlyHMAC ==
    /\ lastCheck.res.ok => lastCheck.hdr.tok.alg \in HMACAlgs
    /\ lastCheck.hdr.scheme = "Bearer" /\ lastCheck.hdr.tok.form = "jwt"
       /\ lastCheck.hdr.tok.alg \in HMACAlgs /\ lastCheck.hdr.tok.key = JWTSecret
       /\ NotExpired(lastCheck.hdr.tok, lastCheck.at)
          => lastCheck.res.ok

\* A token signed HS384 with the secret was accepted.
C7_Witness ==
    /\ lastCheck.res.ok
    /\ lastCheck.hdr.tok.alg = "HS384"

\* C3: the tokens table never holds two records for one (user, provider,
\* account identifier); for the primary provider, whose records carry no
\* account identifier, that is at most one record per (user, provider).
C3_OneRecordPerKey ==
    \A c1, c2 \in creds :
        c1.user = c2.user /\ c1.platform = c2.platform /\ c1.account = c2.account
            => c1 = c2

\* A step that serves a request to POST /auth/github/accounts in slot f with
\* the Authorization header hdr.
LinkRequest(f, hdr) ==
    \/ RequireJWTAbort(f, "github", hdr)
    \/ \E body \in Bodies : AddGitHubAccount(f, hdr, body)

\* C4: a linking request whose header carries no credential the server issued
\* and that is still alive is answered with 401 in the same step, and the
\* registry, the users and the stored credentials are as they were.
C4_LinkNeedsCredential ==
    [][\A f \in Flows, hdr \in ClientHeaders :
          LinkRequest(f, hdr) /\ ~Genuine(hdr, now)
              => /\ last'.kind = "github"
                 /\ Len(last'.resp) = 1 /\ last'.resp[1].status = 401
                 /\ last'.steps = <<>>
                 /\ flow'[f] = IdleFlow
                 /\ UNCHANGED <<tokens, nextState, users, creds, sessions>>]_vars

\* A linking request was turned away with 401 while the server held a user, a
\* stored credential and a pending state token.
C4_Witness ==
    /\ last.kind = "github" /\ Len(last.resp) = 1 /\ last.resp[1].status = 401
    /\ users # {} /\ creds # {} /\ tokens # {}

\* The order of the steps of each flow.
StepOrder(kind) ==
    IF kind = "google" THEN <<"verify", "exchange", "profile", "user", "persist", "session">>
    ELSE IF kind = "github" THEN <<"verify", "exchange", "profile", "persist", "confirm">>
    ELSE IF kind = "legacy" THEN <<"verify", "exchange">>
    ELSE <<>>

\* A log in which the steps ran in the order of the flow, from the first one
\* on, and every step but the last one succeeded.
InOrder(kind, steps) ==
    /\ Len(steps) <= Len(StepOrder(kind))
    /\ \A i \in 1..Len(steps) :
          /\ steps[i].step = StepOrder(kind)[i]
          /\ i < Len(steps) => steps[i].ok

\* C5: every callback runs its steps in the fixed order (state verification,
\* code exchange, profile fetch, user lookup or creation on sign-in, credential
\* persistence, session token or confirmation); a step runs only if all steps
\* before it succeeded, so no code is exchanged for a state that was not
\* pending, and a flow that goes on has succeeded in all it did.
C5_StepOrder ==
    /\ InOrder(last.kind, last.steps)
    /\ \A f \in Flows :
          /\ InOrder(flow[f].kind, flow[f].steps)
          /\ \A i \in 1..Len(flow[f].steps) : flow[f].steps[i].ok
          /\ flow[f].pc \in {"exchange"} => Len(flow[f].steps) = 1
          /\ flow[f].pc \in {"profile"} => Len(flow[f].steps) = 2
          /\ flow[f].pc \in {"findUser", "createUser"} => Len(flow[f].steps) = 3
          /\ flow[f].pc \in {"lookup", "write"} =>
                Len(flow[f].steps) = (IF flow[f].kind = "google" THEN 4 ELSE 3)
          /\ flow[f].pc = "session" => Len(flow[f].steps) = 5

\* A sign-in went through all six steps while another flow, three steps in,
\* is about to store its credential.
C5_Witness ==
    /\ last.kind = "google" /\ Len(last.steps) = 6 /\ last.steps[6].ok
    /\ \E f \in Flows : flow[f].pc = "write" /\ Len(flow[f].steps) >= 3

\* The records stored for user uid with the primary provider.
GoogleRows(rows, uid) == {c \in rows : c.user = uid /\ c.platform = "GOOGLE"}

\* The records stored for user uid with the GitHub account login.
AccountRows(rows, uid, login) ==
    {c \in rows : c.user = uid /\ c.platform = "GITHUB" /\ c.account = login}

\* C8: when sign-ins are served one after the other, the upsert of a sign-in
\* leaves exactly one record for (user, GOOGLE), holding the access and refresh
\* material of the grant just exchanged; if the user had a record, it is that
\* record (same id) which now holds it, and the table has not grown.
C8_PrimaryUpsert ==
    [][\A f \in Flows :
          flow[f].kind = "google" /\ flow[f].pc = "write" /\ flow'[f].pc = "session"
              => LET uid == flow[f].user.id
                     after == GoogleRows(creds', uid) IN
                 /\ Cardinality(after) = 1
                 /\ \A c \in after : /\ c.access = flow[f].grant.access
                                     /\ c.refresh = flow[f].grant.refresh
                 /\ GoogleRows(creds, uid) # {}
                       => /\ {c.id : c \in after} = {c.id : c \in GoogleRows(creds, uid)}
                          /\ Cardinality(creds') = Cardinality(creds)]_vars

\* A second sign-in of a user has just updated the one record the first one
\* created: the record holds the material of the second grant.
C8_Witness ==
    \E f \in Flows :
        /\ flow[f].kind = "google" /\ flow[f].pc = "session" /\ flow[f].branch = "update"
        /\ Cardinality(GoogleRows(creds, flow[f].user.id)) = 1
        /\ \A c \in GoogleRows(creds, flow[f].user.id) :
              c.access = flow[f].grant.access /\ c.access # flow[f].found.access

\* C9: the upsert of a linking flow leaves exactly one record for (user,
\* GITHUB, account), holding the access material of the grant just exchanged,
\* and changes no other record: a second account of the user gets a record of
\* its own, a second grant for the same account updates the record it has.
C9_StorageUpsert ==
    [][\A f \in Flows :
          flow[f].kind = "github" /\ flow[f].pc = "write" /\ last'.err = ""
          /\ flow'[f] = IdleFlow /\ last'.kind = "github"
              => LET uid == flow[f].uid
                     before == AccountRows(creds, uid, flow[f].ident)
                     after == AccountRows(creds', uid, flow[f].ident) IN
                 /\ Cardinality(after) = 1
                 /\ \A c \in after : c.access = flow[f].grant.access
                 /\ creds' \ after = creds \ before
                 /\ before # {} => {c.id : c \in after} = {c.id : c \in before}]_vars

\* A user has two GitHub records with different accounts, and the one created
\* first holds the later grant: it has been updated since the other was made.
C9_Witness ==
    \E c1, c2 \in creds :
        /\ c1.platform = "GITHUB" /\ c2.platform = "GITHUB"
        /\ c1.user = c2.user /\ c1.account # c2.account
        /\ c1.id < c2.id /\ c1.access > c2.access

\* C10: a sign-in creates a user row only for an email no row has, so every
\* email has at most one row and one id; the session token of a sign-in names
\* the row of the email the provider reported, whether the sign-in created the
\* row or found it, and all tokens issued for one email name one id.
C10_OneUserPerEmail ==
    /\ \A u1, u2 \in users : (u1.email = u2.email \/ u1.id = u2.id) => u1 = u2
    /\ \A s \in sessions :
          /\ s.user \in users
          /\ s.tok.id = s.user.id /\ s.tok.email = s.user.email
    /\ \A f \in Flows :
          flow[f].pc \in {"lookup", "write", "session"} /\ flow[f].kind = "google"
              => flow[f].user \in users /\ flow[f].user.email = flow[f].ident
    /\ \A s1, s2 \in sessions : s1.tok.email = s2.tok.email => s1.tok.id = s2.tok.id

\* A user who holds a session token signs in again: the flow has found the
\* row of the first sign-in, the only row there is.
C10_Witness ==
    \E f \in Flows, s \in sessions :
        /\ flow[f].kind = "google" /\ flow[f].pc = "session"
        /\ flow[f].branch = "update"
        /\ flow[f].user = s.user
        /\ users = {s.user}

\* C11: when the requests of a user are served one after the other, the
\* accounts listing names every GitHub account the user has linked exactly
\* once, however often it was linked, and no other account: linking an
\* account again updates its record and adds none.
C11_ListedOnce ==
    last.kind = "githubAccounts" /\ last.err = "" /\ last.uid # 0
        => /\ Len(last.resp) = 1 /\ last.resp[1].status = 200
           /\ \A l \in Logins :
                 /\ last.resp[1].accounts[l] <= 1
                 /\ last.resp[1].accounts[l] = 1 <=> AccountRows(creds, last.uid, l) # {}

\* The listing names two accounts once each, and the record of one of them,
\* created before that of the other, holds a later grant: the account has
\* been linked a second time.
C11_Witness ==
    /\ last.kind = "githubAccounts" /\ last.err = "" /\ last.uid # 0
    /\ \E c1, c2 \in creds :
          /\ c1.platform = "GITHUB" /\ c2.platform = "GITHUB"
          /\ c1.user = last.uid /\ c2.user = last.uid
          /\ c1.id < c2.id /\ c1.access > c2.access
          /\ last.resp[1].accounts[c1.account] = 1
          /\ last.resp[1].accounts[c2.account] = 1

\* A step that serves a callback with body in slot f: POST /auth/google, or
\* POST /auth/github/accounts with a header RequireJWT lets through.
CallbackRequest(f, body) ==
    \/ GoogleAuthCode(f, body)
    \/ \E hdr \in ClientHeaders : AddGitHubAccount(f, hdr, body)

\* C12: a callback whose body is well formed and whose state is not pending
\* (never issued, or consumed before) is answered in the same step with the
\* error INVALID_STATE and one 400 response; its only step is the failed
\* verification, the handler has returned, and registry, users, stored
\* credentials and issued sessions are as they were.
C12_InvalidStateStops ==
    [][\A f \in Flows, body \in Bodies :
          CallbackRequest(f, body) /\ BindOK(body) /\ body.state \notin tokens
              => /\ last'.err = "INVALID_STATE"
                 /\ Len(last'.resp) = 1
                 /\ last'.resp[1].status = 400
                 /\ last'.resp[1].msg = "Invalid state parameter"
                 /\ last'.steps = <<[step |-> "verify", ok |-> FALSE]>>
                 /\ flow'[f] = IdleFlow
                 /\ UNCHANGED <<tokens, nextState, users, creds, sessions>>]_vars

\* A linking callback was answered INVALID_STATE although every state issued
\* so far had been pending once: the state it named was consumed before, or
\* never issued.
C12_Witness ==
    /\ last.kind = "github" /\ last.err = "INVALID_STATE"
    /\ last.resp[1].status = 400
    /\ nextState = MaxParStates /\ tokens = {} /\ creds # {}

\* The error codes of the steps that follow the state verification.
LaterFailures ==
    {"TOKEN_EXCHANGE_FAILED", "USER_INFO_FAILED", "USER_CREATION_FAILED",
     "TOKEN_STORAGE_FAILED", "JWT_GENERATION_FAILED"}

\* C13: a failure ends the flow. The step that failed is the last one of its
\* log and no step ran twice (nothing is retried), the handler has returned
\* with one 400 response, and the state the flow consumed is not pending again,
\* then or ever: a state that has left the registry never returns to it, so a
\* callback that names it again is answered INVALID_STATE.
C13_FailureIsTerminal ==
    [][/\ \A s \in 1..nextState : s \notin tokens => s \notin tokens'
       /\ \A f \in Flows :
             flow[f].pc # "idle" /\ flow'[f] = IdleFlow /\ last'.err \in LaterFailures
                 => /\ flow[f].state \notin tokens'
                    /\ InOrder(last'.kind, last'.steps)
                    /\ ~last'.steps[Len(last'.steps)].ok
                    /\ Len(last'.resp) = 1 /\ last'.resp[1].status = 400
                    /\ last'.resp[1].tok = EmptyTok
       /\ \A f \in Flows, body \in Bodies :
             (CallbackRequest(f, body) /\ BindOK(body)
                  /\ body.state <= nextState /\ body.state \notin tokens)
                 => last'.err = "INVALID_STATE"]_vars

\* A sign-in has just failed at the persistence step; no state is pending,
\* the one it came with included.
C13_Witness ==
    /\ last.kind = "google" /\ last.err = "TOKEN_STORAGE_FAILED"
    /\ Len(last.steps) = 5
    /\ nextState >= 1 /\ tokens = {}

\* The rows an upsert of flow record fl looks for, selected directly.
KeyRows(rows, fl) ==
    IF fl.kind = "google"
    THEN GoogleRows(rows, fl.user.id)
    ELSE AccountRows(rows, fl.uid, fl.ident)

\* C14: the lookup of an upsert changes no row, and has three outcomes: the
\* update branch with a row of the key, the create branch when the lookup
\* answered and no row has the key, and, for any other error of the lookup, a
\* failure that carries that error as it was returned, after which nothing is
\* written. The create branch is never entered on a failed lookup.
C14_CreateOnlyOnNotFound ==
    [][\A f \in Flows :
          /\ flow[f].pc = "lookup" /\ flow'[f] # flow[f]
                => /\ creds' = creds
                   /\ \/ /\ flow'[f].pc = "write" /\ flow'[f].branch = "create"
                         /\ KeyRows(creds, flow[f]) = {}
                      \/ /\ flow'[f].pc = "write" /\ flow'[f].branch = "update"
                         /\ flow'[f].found \in KeyRows(creds, flow[f])
                      \/ /\ flow'[f] = IdleFlow
                         /\ last'.err = "TOKEN_STORAGE_FAILED"
                         /\ last'.resp = <<NewErrorResponse(400,
                                 ErrorMessage(flow[f].kind, "TOKEN_STORAGE_FAILED"),
                                 LookupError)>>
          /\ LookupToken(f, FALSE)
                => /\ flow'[f] = IdleFlow /\ creds' = creds
                   /\ last'.err = "TOKEN_STORAGE_FAILED"
                   /\ last'.resp[1].details = LookupError]_vars

\* A link of an account the user already holds has just failed on the lookup:
\* the record is there, untouched.
C14_Witness ==
    /\ last.kind = "github" /\ last.err = "TOKEN_STORAGE_FAILED"
    /\ last.resp[1].details = LookupError
    /\ \E c \in creds : c.user = last.uid /\ c.platform = "GITHUB" /\ c.updatedAt = c.createdAt

\* C15: the record a create or an update writes has its refresh-issuance
\* timestamp set only if the grant of the flow carries a refresh token (a
\* non-empty RefreshToken); without one the timestamp is left unset.
C15_RefreshStampOnlyWithRefresh ==
    [][\A f \in Flows :
          flow[f].pc = "write" /\ flow'[f] # flow[f]
              => \A c \in creds' \ creds :
                    c.refreshIssuedAt # NoTime => flow[f].grant.refresh # 0]_vars

\* C16: when the session token of a sign-in cannot be issued after its
\* credential was stored, the request fails with JWT_GENERATION_FAILED and
\* carries no session token, no session is issued, and nothing is undone: the
\* users and credentials tables are as the flow left them, holding the user
\* of the flow and the GOOGLE record with the access material of its grant.
C16_NoRollback ==
    [][\A f \in Flows :
          flow[f].pc = "session" /\ flow'[f] = IdleFlow /\ last'.err # ""
              => /\ last'.err = "JWT_GENERATION_FAILED"
                 /\ Len(last'.resp) = 1 /\ last'.resp[1].status = 400
                 /\ last'.resp[1].tok = EmptyTok
                 /\ sessions' = sessions /\ users' = users /\ creds' = creds
                 /\ flow[f].user \in users'
                 /\ \E c \in creds' : /\ c.user = flow[f].user.id
                                       /\ c.platform = "GOOGLE"
                                       /\ c.access = flow[f].grant.access]_vars

\* A first sign-in has just failed at the session step: the user and the
\* credential it wrote are stored, and no session exists.
C16_Witness ==
    /\ last.kind = "google" /\ last.err = "JWT_GENERATION_FAILED"
    /\ Len(last.steps) = 6 /\ last.steps[5] = [step |-> "persist", ok |-> TRUE]
    /\ sessions = {}
    /\ Cardinality(users) = 1 /\ Cardinality(creds) = 1

\* C17: the response to a request that failed with an error of the taxonomy
\* carries the code of that error, a message, and the cause when there is one.
C17_CodeSurfaced ==
    last.err \in LaterFailures \cup {"INVALID_STATE"}
        => /\ Len(last.resp) = 1
           /\ last.resp[1].code = last.err
           /\ last.resp[1].msg # ""
           /\ last.err # "INVALID_STATE" => last.resp[1].details = Cause

\* C18: GET /auth/github/oauth-url stores a state only for a request whose
\* header carries a credential this server issued and that has not expired;
\* every other header is turned away by RequireJWT with 401, no URL, and the
\* registry as it was. GET /auth/google/oauth-url reads no header: it can be
\* served in every state with a free slot, signed-in user or not.
C18_StorageURLNeedsCredential ==
    [][/\ \A f \in Flows, hdr \in ClientHeaders, randOK \in BOOLEAN :
             GitHubOAuthURL(f, hdr, randOK) => Genuine(hdr, now)
       /\ last'.kind = "githubURL" /\ tokens' # tokens
             => /\ last'.uid # 0
                /\ \E s \in sessions : s.user.id = last'.uid /\ now < s.at + JWTLifetime
       /\ \A hdr \in ClientHeaders : ~Genuine(hdr, now) => ~RequireJWT(hdr, now).ok
       /\ \A f \in Flows, hdr \in ClientHeaders :
             RequireJWTAbort(f, "githubURL", hdr)
                 => /\ tokens' = tokens /\ nextState' = nextState
                    /\ Len(last'.resp) = 1 /\ last'.resp[1].status = 401
                    /\ last'.resp[1].url = NoURL
       /\ \A f \in Flows :
             Free(f) /\ nextState < MaxStates => ENABLED GoogleOAuthURL(f, TRUE)]_vars

\* A signed-in user has just been given a GitHub authorization URL; its state
\* is pending.
C18_Witness ==
    /\ last.kind = "githubURL" /\ last.uid # 0
    /\ Len(last.resp) = 1 /\ last.resp[1].status = 200
    /\ last.resp[1].url.provider = "github"
    /\ last.resp[1].url.state \in tokens

\* A value generateAndAddState has drawn and stored (its addState is over).
Registered(v) ==
    /\ v <= nextState
    /\ \A t \in Threads : ~(thr[t].op = "addState" /\ thr[t].arg = v /\ thr[t].pc \in {"lock", "body"})

\* C19: removeState(v) takes v out of the registry whether it was there or
\* not and touches no other token, so on a value that is not pending (a second
\* removal, a value never issued) it leaves the registry as it was; v is not
\* pending for as long as the caller holds the lock, a registered token that
\* has left the registry never comes back, and verifyAndConsumeState of a
\* value that is not pending returns false.
C19_DiscardIdempotent ==
    [][/\ \A t \in Threads :
             thr[t].op = "removeState" /\ thr[t].pc = "body" /\ thr'[t].pc = "unlock"
                 => /\ thr[t].arg \notin tokens'
                    /\ tokens' = {s \in tokens : s # thr[t].arg}
                    /\ thr[t].arg \notin tokens => tokens' = tokens
       /\ \A t \in Threads :
             thr[t].op = "removeState" /\ thr[t].pc = "unlock"
                 => thr[t].arg \notin tokens /\ writer = t
       /\ \A v \in StateValues : Registered(v) /\ v \notin tokens => v \notin tokens'
       /\ \A u \in Threads :
             /\ (thr[u].op = "verifyAndConsumeState" /\ thr[u].pc = "body"
                     /\ thr'[u].pc # "body" /\ thr[u].arg \notin tokens)
                   => ~thr'[u].exists /\ thr'[u].pc = "unlock" /\ tokens' = tokens
             /\ (thr[u].op = "verifyAndConsumeState" /\ thr[u].pc = "unlock"
                     /\ thr'[u].pc = "returned" /\ ~thr[u].exists)
                   => thr'[u].ret = "false"]_vars

\* One goroutine is back from removeState(v) for a registered token v that
\* nobody consumed; another, inside the lock after it, has looked v up in
\* verifyAndConsumeState and not found it.
C19_Witness ==
    \E t, u \in Threads, v \in StateValues :
        /\ t # u /\ Registered(v) /\ trueCount[v] = 0
        /\ thr[t].op = "removeState" /\ thr[t].arg = v /\ thr[t].pc = "returned"
        /\ thr[u].op = "verifyAndConsumeState" /\ thr[u].arg = v
        /\ thr[u].pc = "unlock" /\ ~thr[u].exists

\* A request for an authorization URL, of either provider.
URLRequest(f, randOK) ==
    \/ GoogleOAuthURL(f, randOK)
    \/ \E hdr \in ClientHeaders : GitHubOAuthURL(f, hdr, randOK)
    \/ \E body \in URLBodies : GenerateOAuthURLHandler(f, randOK, body)

\* C20: when the random state cannot be drawn, the URL request is answered
\* once, with 500 "Internal Server Error" and no URL, the handler is over
\* (nothing is tried again), and the registry and the number of draws are as
\* before: no token was registered.
C20_RandomnessFailure ==
    [][\A f \in Flows :
          URLRequest(f, FALSE)
              => /\ tokens' = tokens /\ nextState' = nextState
                 /\ flow'[f] = IdleFlow
                 /\ last'.kind \in {"googleURL", "githubURL", "legacyURL"}
                 /\ last'.steps = <<>>
                 /\ Len(last'.resp) = 1
                 /\ last'.resp[1].status = 500
                 /\ last'.resp[1].msg = "Internal Server Error"
                 /\ last'.resp[1].details = Nil
                 /\ last'.resp[1].url = NoURL]_vars

\* A signed-in user's request for a GitHub URL has just failed on the draw;
\* the state of the sign-in is consumed and nothing is pending.
C20_Witness ==
    /\ last.kind = "githubURL" /\ last.uid # 0
    /\ last.resp = <<NewErrorResponse(500, "", Nil)>>
    /\ nextState = 1 /\ tokens = {}

\* C21: a URL request answered with 200 has registered exactly one state,
\* new to the registry, and the URL of the response, built for the provider
\* of the route, carries that state; the state is pending when the response
\* is written.
C21_URLCarriesIssuedState ==
    [][(last'.kind \in {"googleURL", "githubURL", "legacyURL"} /\ Len(last'.resp) = 1
            /\ last'.resp[1].status = 200)
          => LET u == last'.resp[1].url IN
             /\ tokens' \ tokens = {u.state}
             /\ tokens \subseteq tokens'
             /\ u.state \in tokens'
             /\ u.provider = (IF last'.kind = "githubURL" THEN "github" ELSE "google")]_vars

\* A second Google URL has just been handed out while the first state is
\* still pending.
C21_Witness ==
    /\ last.kind = "googleURL"
    /\ Len(last.resp) = 1 /\ last.resp[1].status = 200
    /\ last.resp[1].url.state = 2
    /\ tokens = {1, 2}

\* The redirect URLs the server holds itself: the callback URLs of the
\* configuration and the default written in the first auth package.
ServerRedirects == {CallbackURL("google"), CallbackURL("github"), LegacyCallbackURL}

\* C29: the URL of every successful URL request is made of the state and of
\* values the server holds: its redirect URL is one of the server's own, never
\* one the request supplied, and scope, access type and prompt are the fixed
\* ones of the provider.
C29_RedirectFromConfiguration ==
    (last.kind \in {"googleURL", "githubURL", "legacyURL"} /\ Len(last.resp) = 1
         /\ last.resp[1].status = 200)
        => LET u == last.resp[1].url IN
           /\ u.redirect \in ServerRedirects
           /\ u.scope = Scopes(u.provider)
           /\ u.accessType = "offline" /\ u.prompt = "consent"

\* C23: no two rows of the users table have the same email, whatever the
\* interleaving of the sign-ins. No step removes or changes a row; a step adds
\* at most one, for an email no row has; and a sign-in that reaches the insert
\* for an email that has a row by then (another sign-in for the same new email
\* got there first) adds nothing and fails with USER_CREATION_FAILED.
C23_EmailsUnique ==
    [][/\ users \subseteq users'
       /\ Cardinality(users' \ users) <= 1
       /\ \A u \in users' \ users : \A v \in users : v.email # u.email
       /\ \A u1, u2 \in users' : u1.email = u2.email => u1 = u2
       /\ \A f \in Flows :
             (flow[f].pc = "createUser" /\ flow'[f] # flow[f]
                  /\ \E v \in users : v.email = flow[f].ident)
                => /\ users' = users
                   /\ flow'[f] = IdleFlow
                   /\ last'.err = "USER_CREATION_FAILED"]_vars

\* Two sign-ins ran at once for one new email and both found no user: one has
\* created the row, the other has just been refused at the insert.
C23_Witness ==
    /\ last.kind = "google" /\ last.err = "USER_CREATION_FAILED"
    /\ Cardinality(users) = 1
    /\ \E f \in Flows :
          /\ flow[f].kind = "google" /\ flow[f].pc \in {"lookup", "write", "session"}
          /\ flow[f].user \in users /\ flow[f].branch = "none"
    /\ sessions = {}

\* C24: a sign-in reaches the two statements of its upsert only with a user
\* that is a row of the users table, found or created by the step just before,
\* and every GOOGLE credential stored belongs to a row of the users table.
C24_UserBeforeCredential ==
    /\ \A f \in Flows :
          flow[f].kind = "google" /\ flow[f].pc \in {"lookup", "write"}
              => /\ flow[f].user \in users
                 /\ flow[f].steps[Len(flow[f].steps)] = [step |-> "user", ok |-> TRUE]
    /\ \A c \in creds :
          c.platform = "GOOGLE" => \E u \in users : u.id = c.user

\* A first sign-in has stored its credential under the user it created.
C24_Witness ==
    \E f \in Flows, c \in creds :
        /\ flow[f].kind = "google" /\ flow[f].pc = "session" /\ flow[f].branch = "create"
        /\ c.platform = "GOOGLE" /\ c.user = flow[f].user.id
        /\ c.access = flow[f].grant.access
        /\ users = {flow[f].user}

\* C25: a request whose code exchange failed (transport error, rejection by
\* the provider, empty or expired access token) is answered once, with a 400
\* and no success body, and the exchange is the last step it took.
C25_ExchangeFailureOnly ==
    (last.steps # <<>> /\ last.steps[Len(last.steps)] = [step |-> "exchange", ok |-> FALSE])
        => /\ Len(last.resp) = 1
           /\ last.resp[1].status = 400
           /\ \A i \in DOMAIN last.resp : last.resp[i].msg # "success"
           /\ Len(last.steps) = 2

\* C26: the profile step either goes on with the email (sign-in) or the login
\* (linking) of a complete profile, or, on a transport error, a non-success
\* status, a body that does not decode or a profile without its required
\* fields, ends the request with USER_INFO_FAILED after three steps, the
\* tables untouched. No user has an empty email and no credential an empty
\* account.
C26_ProfileFailureStops ==
    [][/\ \A f \in Flows :
             flow[f].pc = "profile" /\ flow'[f] # flow[f]
                 => /\ users' = users /\ creds' = creds
                    /\ \/ /\ flow'[f].pc \in {"findUser", "lookup"}
                          /\ flow'[f].ident \in
                                (IF flow[f].kind = "google" THEN Emails ELSE Logins)
                       \/ /\ flow'[f] = IdleFlow
                          /\ last'.err = "USER_INFO_FAILED"
                          /\ Len(last'.resp) = 1 /\ last'.resp[1].status = 400
                          /\ Len(last'.steps) = 3
                          /\ last'.steps[3] = [step |-> "profile", ok |-> FALSE]
       /\ \A f \in Flows, outcome \in ProfileOutcomes \ {"ok"} :
             FetchProfile(f, outcome, "") => flow'[f] = IdleFlow /\ last'.err = "USER_INFO_FAILED"
       /\ \A u \in users' : u.email # ""
       /\ \A c \in creds' : c.account # ""]_vars

\* The profile request of a linking flow has just failed; the user who sent
\* it has a GOOGLE record and no other.
C26_Witness ==
    /\ last.kind = "github" /\ last.err = "USER_INFO_FAILED"
    /\ last.uid # 0
    /\ \A c \in creds : c.platform = "GOOGLE"
    /\ \E c \in creds : c.user = last.uid

\* C27: every request that is being served is answered: its handler returns,
\* with a success or with one failure.
C27_FlowTerminates ==
    \A f \in Flows : (flow[f].pc # "idle") ~> (flow[f].pc = "idle")

\* A goroutine that is inside the locked section of a registry function.
Inside(t) == thr[t].pc \in {"body", "delete", "unlock"}

\* C28: the lock of the registry is held exactly by the goroutines inside a
\* locked section: the write lock by the one goroutine inside addState,
\* verifyAndConsumeState or removeState, which then is alone inside; the read
\* lock by the goroutines inside isValidState, which are inside together only
\* with each other. A goroutine that has returned, or has not entered yet,
\* holds nothing. Whenever a goroutine waits for the lock, some goroutine can
\* take a step: the registry never deadlocks.
C28_LockExclusion ==
    /\ \A t \in Threads :
          Inside(t) /\ LockKind(thr[t].op) = "write"
              => /\ writer = t /\ readers = {}
                 /\ \A u \in Threads : u # t => ~Inside(u)
    /\ \A t \in Threads :
          Inside(t) /\ LockKind(thr[t].op) = "read"
              => /\ t \in readers /\ writer = 0
                 /\ \A u \in Threads : Inside(u) => LockKind(thr[u].op) = "read"
    /\ \A t \in Threads : ~Inside(t) => writer # t /\ t \notin readers
    /\ writer \in Threads \cup {0} /\ readers \subseteq Threads
    /\ (\E t \in Threads : thr[t].pc = "lock")
          => \E u \in Threads :
                ENABLED (RegLock(u) \/ RegBody(u) \/ RegDelete(u) \/ RegUnlock(u))

\* Two existence checks are inside the registry at once, one still reading the
\* map and one about to leave, both holding the read lock.
C28_Witness ==
    \E t, u \in Threads :
        /\ t # u
        /\ thr[t].op = "isValidState" /\ thr[t].pc = "body"
        /\ thr[u].op = "isValidState" /\ thr[u].pc = "unlock"
        /\ readers = {t, u} /\ writer = 0

\* C30: the write of an upsert carries out the branch its lookup chose and
\* does not look again. A write on the create branch, whatever the table holds
\* by then, changes no row that is there: it is refused, or it adds one row
\* with a new id that holds the access material of its grant.
C30_UpsertNotAtomic ==
    [][\A f \in Flows :
          (flow[f].pc = "write" /\ flow[f].branch = "create" /\ flow'[f] # flow[f])
              => /\ creds \subseteq creds'
                 /\ Cardinality(creds' \ creds) <= 1
                 /\ \A c \in creds' \ creds :
                       /\ \A d \in creds : d.id # c.id
                       /\ c.access = flow[f].grant.access
                       /\ c.createdAt = now]_vars

\* Two requests of one user link the same new GitHub account at once: both
\* lookups have found no row, and both handlers are about to insert.
C30_Witness ==
    \E f, g \in Flows :
        /\ f # g
        /\ flow[f].kind = "github" /\ flow[g].kind = "github"
        /\ flow[f].pc = "write" /\ flow[g].pc = "write"
        /\ flow[f].branch = "create" /\ flow[g].branch = "create"
        /\ flow[f].uid = flow[g].uid /\ flow[f].ident = flow[g].ident
        /\ AccountRows(creds, flow[f].uid, flow[f].ident) = {}


\* ---------------------------------------------------------------------------
\* C31: every token in the registry was drawn by an earlier generateAndAddState
\* of the server: the registry holds issued values only, a step adds at most
\* the value this step's URL request has just drawn, and a callback, whatever
\* state its body carries, adds nothing (a callback whose state is not pending
\* leaves the registry as it was).
C31_OnlyIssuedStatesPending ==
    [][ /\ tokens' \subseteq 1..nextState'
        /\ \A s \in tokens' \ tokens :
              /\ s = nextState + 1
              /\ nextState' = nextState + 1
              /\ last'.kind \in {"googleURL", "githubURL", "legacyURL"}
        /\ \A f \in Flows, body \in Bodies :
              (CallbackRequest(f, body) \/ AuthCodeHandler(f, body)) =>
                  /\ tokens' \subseteq tokens
                  /\ (body.state \notin tokens => tokens' = tokens) ]_vars

\* A callback has just been refused for a state the server never drew: one
\* state was issued, it is still pending, and the presented one was another.
C31_Witness ==
    /\ last.err = "INVALID_STATE"
    /\ nextState = 1
    /\ tokens = {1}


\* A second client whose sign-in an earlier run of the server served.
Second == [id |-> 2, email |-> "b@x"]

\* The server restarted after Returning and Second signed in: both hold a
\* session credential and a stored Google grant.
PairInit ==
    /\ RegInit
    /\ now = 0
    /\ sessions = {[tok |-> GenerateJWT(u, 0), user |-> u, at |-> 0] : u \in {Returning, Second}}
    /\ lastCheck = NoCheck
    /\ users = {Returning, Second}
    /\ creds = {CreateTokenWithAccountIdentifier(u.id, u.id, "GOOGLE", NULL,
                                                 MaxStates + 1, MaxStates + 1, 0) :
                    u \in {Returning, Second}}
    /\ flow = [f \in Flows |-> IdleFlow]
    /\ last = NoRequest

PairSpec == PairInit /\ [][SeqNext]_vars

\* ---------------------------------------------------------------------------
\* POST /auth/github/accounts with header hdr and body body is served in slot
\* f and its state passes verifyAndConsumeState: the handler goes on to the
\* code exchange and the state is no longer pending.
LinkingAccepts(f, hdr, body) ==
    /\ AddGitHubAccount(f, hdr, body)
    /\ flow'[f].kind = "github"
    /\ flow'[f].pc = "exchange"
    /\ flow'[f].uid = RequireJWT(hdr, now).userID
    /\ flow'[f].state = body.state
    /\ tokens' = tokens \ {body.state}

\* The header of a request that carries the session credential s.
BearerOf(s) == [scheme |-> "Bearer", tok |-> s.tok]

\* C32: a state token is bound neither to a provider nor to a user. Right
\* after the server handed out an authorization URL, for Google (a public
\* request, no user) or for GitHub (to the user of the request's credential),
\* the linking callback presenting that URL's state is accepted with the
\* credential of every signed-in user, the one the state was issued to or
\* another one, and consumes the state.
C32_StateNotBound ==
    (/\ last.kind \in {"googleURL", "githubURL"}
     /\ Len(last.resp) = 1
     /\ last.resp[1].status = 200)
        => \A s \in sessions :
               ENABLED LinkingAccepts(1, BearerOf(s),
                                      [code |-> "c", state |-> last.resp[1].url.state])

\* Returning has just been given a GitHub authorization URL and the linking
\* callback of Second with the state of that URL is accepted.
C32_Witness ==
    /\ last.kind = "githubURL"
    /\ last.uid = Returning.id
    /\ Len(last.resp) = 1 /\ last.resp[1].status = 200
    /\ \E s \in sessions :
          /\ s.user = Second
          /\ ENABLED LinkingAccepts(1, BearerOf(s),
                                    [code |-> "c", state |-> last.resp[1].url.state])


\* ---------------------------------------------------------------------------
\* C33: a pending token leaves the registry only in the delete of a
\* verifyAndConsumeState or of a removeState called with that very token, by
\* the goroutine that holds the write lock. Every other step of every registry
\* function (a lookup, a store, a lock, an unlock, a call with another value)
\* keeps it pending; the registry has no step that expires a token.
C33_PendingUntilConsumedOrDiscarded ==
    [][\A s \in tokens :
          s \notin tokens' =>
              \E u \in Threads :
                  /\ thr[u].arg = s
                  /\ writer = u
                  /\ \/ thr[u].op = "verifyAndConsumeState" /\ thr[u].pc = "delete"
                     \/ thr[u].op = "removeState" /\ thr[u].pc = "body"]_vars

\* Token 1 is still pending after token 2 was issued and consumed and a
\* removeState(3) has returned.
C33_Witness ==
    /\ 1 \in tokens
    /\ trueCount[2] = 1
    /\ \E t \in Threads :
          thr[t].op = "removeState" /\ thr[t].arg = 3 /\ thr[t].pc = "returned"


\* ---------------------------------------------------------------------------
\* The :id path parameters a client can send: none, the id of a row, an id no
\* row has.
PathIDs == 0..3

\* FindUserByID: db.DB.First(&user, id)
FindUserByID(rows, id) == {u \in rows : u.id = id}

\* GetSigninTokenByIDHandler and GetTokenByUserID: no header is read and no
\* state is asked for. An empty id is answered 400; a lookup without a row, or
\* a signing error (signOK false), 404 "User not found"; otherwise
\* GenerateJWT(user) and 200 with the token.
GetSigninTokenByIDHandler(f, id, signOK) ==
    /\ Free(f)
    /\ LET fl   == [IdleFlow EXCEPT !.kind = "signinByID"]
           hits == FindUserByID(users, id) IN
       IF id = 0
       THEN /\ Finish(f, fl, "", <<NewErrorResponse(400, "User ID is required", Nil)>>)
            /\ UNCHANGED sessions
       ELSE IF hits = {} \/ ~signOK
       THEN /\ Finish(f, fl, "", <<NewErrorResponse(404, "User not found", Nil)>>)
            /\ UNCHANGED sessions
       ELSE LET user == CHOOSE u \in hits : TRUE
                tok  == GenerateJWT(user, now) IN
            /\ sessions' = sessions \cup {[tok |-> tok, user |-> user, at |-> now]}
            /\ Finish(f, fl, "", <<[Response(200, "", Nil) EXCEPT !.tok = tok]>>)
    /\ UNCHANGED <<tokens, nextState, users, creds, now, lastCheck, regOnlyVars>>

\* The server with the handlers package's development endpoint mounted next
\* to the routes of SeqSpec, one request at a time.
DevNext ==
    \/ SeqNext
    \/ Quiet /\ \E f \in Flows, id \in PathIDs, signOK \in BOOLEAN :
                    GetSigninTokenByIDHandler(f, id, signOK)

DevSpec == Init /\ [][DevNext]_vars

\* C34: a session credential is added only by the request that completes a
\* Google sign-in: its state was verified, its code exchanged, its profile
\* fetched, its user resolved and its credential persisted, the signing is its
\* last step, and the credential is the one in the response.
C34_SessionOnlyAfterSignIn ==
    [][sessions' # sessions =>
          /\ last'.kind = "google"
          /\ last'.steps # <<>>
          /\ \A i \in DOMAIN last'.steps : last'.steps[i].ok
          /\ {last'.steps[i].step : i \in DOMAIN last'.steps}
                 = {"verify", "exchange", "profile", "user", "persist", "session"}
          /\ last'.steps[Len(last'.steps)].step = "session"
          /\ Len(last'.resp) = 1 /\ last'.resp[1].status = 200
          /\ \E s \in sessions' \ sessions : s.tok = last'.resp[1].tok]_vars


\* ---------------------------------------------------------------------------
\* C35: no step of a linking request (POST /auth/github/accounts, from its
\* arrival to its response) changes the users table or the set of session
\* credentials; every credential row it writes is a GITHUB row of the user id
\* RequireJWT took from the session credential of the request, the id of a
\* signed-in user, with the login of the profile as account identifier only;
\* and a linking request that succeeds ends after the confirm step with
\* "GitHub account linked successfully", the login, and no token.
C35_LinkingOnlyLinks ==
    [][\A f \in Flows :
          (flow'[f] # flow[f] /\ (flow[f].kind = "github" \/ flow'[f].kind = "github"))
              => /\ users' = users
                 /\ sessions' = sessions
                 /\ \A c \in creds' \ creds :
                       /\ c.platform = "GITHUB"
                       /\ c.user = flow[f].uid
                       /\ c.account = flow[f].ident
                       /\ \E s \in sessions : s.user.id = c.user
                 /\ (flow[f].pc = "write" /\ creds' # creds)
                       => /\ last'.kind = "github" /\ last'.err = ""
                          /\ last'.uid = flow[f].uid
                          /\ last'.steps[Len(last'.steps)] = [step |-> "confirm", ok |-> TRUE]
                          /\ Len(last'.resp) = 1
                          /\ last'.resp[1].status = 200
                          /\ last'.resp[1].msg = "GitHub account linked successfully"
                          /\ last'.resp[1].account = flow[f].ident
                          /\ last'.resp[1].tok = EmptyTok
                 /\ last'.kind = "github" => \A i \in DOMAIN last'.resp :
                                                 last'.resp[i].tok = EmptyTok]_vars

\* Second has just linked a GitHub account: the row is Second's, the tables
\* of users and the session credentials are those of the start.
C35_Witness ==
    /\ last.kind = "github" /\ last.err = "" /\ last.uid = Second.id
    /\ Len(last.resp) = 1 /\ last.resp[1].status = 200
    /\ \E c \in creds : c.platform = "GITHUB" /\ c.user = Second.id
                        /\ c.account = last.resp[1].account
    /\ users = {Returning, Second}
    /\ Cardinality(sessions) = 2


\* ---------------------------------------------------------------------------
\* C36: the accounts listing served to a user names each login as many times
\* as the credentials table holds GITHUB rows of that user with that login: a
\* row of another user is not counted, even one for the same GitHub account,
\* and the GOOGLE row of the user adds nothing (a user with no GITHUB row gets
\* an empty list).
C36_ListingIsOwnAccounts ==
    (last.kind = "githubAccounts" /\ last.err = "" /\ last.uid # 0)
        => /\ Len(last.resp) = 1 /\ last.resp[1].status = 200
           /\ DOMAIN last.resp[1].accounts = Logins
           /\ \A l \in Logins :
                 last.resp[1].accounts[l] =
                     Cardinality({c \in creds : /\ c.user = last.uid
                                                /\ c.platform = "GITHUB"
                                                /\ c.account = l})
           /\ (\A c \in creds : c.user = last.uid => c.platform = "GOOGLE")
                 => last.resp[1].accounts = NoAccounts
           /\ last.resp[1].tok = EmptyTok

\* Returning and Second have both linked the GitHub account alice, in two
\* rows, and Returning has linked bob as well; Second has just been given its
\* listing: alice once, bob not at all.
C36_Witness ==
    /\ last.kind = "githubAccounts" /\ last.err = "" /\ last.uid = Second.id
    /\ last.resp[1].accounts = [l \in Logins |-> IF l = "alice" THEN 1 ELSE 0]
    /\ \E c1, c2, c3 \in creds :
          /\ c1.platform = "GITHUB" /\ c1.user = Returning.id /\ c1.account = "alice"
          /\ c2.platform = "GITHUB" /\ c2.user = Second.id /\ c2.account = "alice"
          /\ c3.platform = "GITHUB" /\ c3.user = Returning.id /\ c3.account = "bob"
          /\ c1.id # c2.id
    /\ \E c \in creds : c.platform = "GOOGLE" /\ c.user = Second.id


\* ---------------------------------------------------------------------------
\* C37: the write of an upsert that found a record replaces that record, and
\* nothing else, by one with the same id, user, platform, account identifier
\* and creation time, holding the refresh token of the grant just exchanged;
\* when that grant carries no refresh token the record holds none (nil or the
\* empty string) and its refresh-issuance timestamp is unset.
C37_UpdateReplacesRefresh ==
    [][\A f \in Flows :
          (flow[f].pc = "write" /\ flow[f].branch = "update" /\ creds' # creds)
              => LET old == flow[f].found IN
                 \E c \in creds' :
                     /\ creds' = {r \in creds : r.id # old.id} \cup {c}
                     /\ c.id = old.id /\ c.user = old.user /\ c.platform = old.platform
                     /\ c.account = old.account /\ c.createdAt = old.createdAt
                     /\ flow[f].grant.refresh # 0 => c.refresh = flow[f].grant.refresh
                     /\ flow[f].grant.refresh = 0
                           => /\ c.refresh \in {NilRefresh, 0}
                              /\ c.refreshIssuedAt = NoTime]_vars


====
